---- MODULE Spec2Model ----
(***************************************************************************)
(* View composition and incremental redraw of the ao3-reader UI: the Home  *)
(* and Works containers, their child vectors, the render queue, the hub    *)
(* and the overlay (search bar + keyboard) toggles, modelled from          *)
(* crates/core/src/view/home.rs, src/view/works/mod.rs and                 *)
(* src/view/common.rs.  All child indices are 0-based, as in the source.   *)
(***************************************************************************)
EXTENDS Integers, Sequences, FiniteSets, TLC

VARIABLES
    container,    \* "Home" | "Works" | "Lookup": which view this run is about
    rect,         \* the container's rectangle
    id,           \* the container's Id
    children,     \* Vec<Box<dyn View>>
    shelf_index,  \* index of the anchor child
    focus,        \* Option<ViewId>
    query,        \* Option<String> / Option<BookQuery>
    pages_count,  \* Works::pages_count
    current_page, \* Works::current_page
    rq,           \* RenderQueue: the requests added in the current dispatch cycle
    hub,          \* the mpsc channel behind Hub: events sent and not yet handled
    kb_rect,      \* context.kb_rect
    next_id,      \* ID_FEEDER
    aborted,      \* a panic ended the process
    last,         \* the event handled last, with the state it was handled in
    first_id,     \* ID_FEEDER when the container had been constructed
    lk_result,    \* result of the last lookup call (lookup specification)
    rv,           \* the fields of RotationValues and the framebuffer's rotation
    client        \* the session flags of HttpClient and the answer of its last call

vars == <<container, rect, id, children, shelf_index, focus, query, pages_count,
          current_page,
          rq, hub, kb_rect, next_id, aborted, last, first_id, lk_result, rv, client>>

(***************************************************************************)
(* Bounds of the model.                                                    *)
(***************************************************************************)
MaxNew == 4
MaxHub == 2
MaxFaves == 2
MaxLookupLen == 4
MaxPages == 2
MaxNotif == 1

(***************************************************************************)
(* Device-scaled heights (CURRENT_DEVICE.dpi = 167, the value under which  *)
(* the top bar of the tests is 68 pixels high).                            *)
(***************************************************************************)
small_height == 67
big_height == 91
thickness == 1
small_thickness == thickness \div 2
big_thickness == thickness - small_thickness
FaveHeight == 57

(***************************************************************************)
(* Geometry.                                                               *)
(***************************************************************************)
Rect(x0, y0, x1, y1) == [min |-> [x |-> x0, y |-> y0], max |-> [x |-> x1, y |-> y1]]

DefaultRect == Rect(0, 0, 0, 0)

Min(a, b) == IF a <= b THEN a ELSE b

Max(a, b) == IF a >= b THEN a ELSE b

Height(r) == r.max.y - r.min.y

Absorb(r, o) == Rect(Min(r.min.x, o.min.x), Min(r.min.y, o.min.y),
                     Max(r.max.x, o.max.x), Max(r.max.y, o.max.y))

ShiftY(r, dy) == Rect(r.min.x, r.min.y + dy, r.max.x, r.max.y + dy)

Contains(outer, inner) ==
    /\ outer.min.x <= inner.min.x /\ outer.min.y <= inner.min.y
    /\ inner.max.x <= outer.max.x /\ inner.max.y <= outer.max.y

HomeRect == Rect(0, 0, 600, 800)

\* how far Keyboard::new moves the top edge of the rectangle it is given
kb_gap == 6

(***************************************************************************)
(* Views, child vectors (0-based) and the lookup protocol.                 *)
(***************************************************************************)
None == "None"

NoIndex == -1

NoOwner == 0

View(t, i, v, r) == [type |-> t, id |-> i, view_id |-> v, rect |-> r]

Child(ch, i) == ch[i + 1]

InsertAt(ch, i, v) == SubSeq(ch, 1, i) \o <<v>> \o SubSeq(ch, i + 1, Len(ch))

Drain(ch, a, b) == SubSeq(ch, 1, a) \o SubSeq(ch, b + 2, Len(ch))

SetRect(ch, i, r) == [ch EXCEPT ![i + 1].rect = r]

RECURSIVE locate_from(_, _, _)
locate_from(ch, T, i) ==
    IF i >= Len(ch) THEN NoIndex
    ELSE IF Child(ch, i).type = T THEN i
    ELSE locate_from(ch, T, i + 1)

locate(ch, T) == locate_from(ch, T, 0)

RECURSIVE rlocate_from(_, _, _)
rlocate_from(ch, T, i) ==
    IF i < 0 THEN NoIndex
    ELSE IF Child(ch, i).type = T THEN i
    ELSE rlocate_from(ch, T, i - 1)

rlocate_first(ch, T) == locate_from(ch, T, 0)

rlocate(ch, T) == rlocate_from(ch, T, Len(ch) - 1)

RECURSIVE position_from(_, _, _)
position_from(ch, v, i) ==
    IF i >= Len(ch) THEN NoIndex
    ELSE IF Child(ch, i).view_id # None /\ Child(ch, i).view_id = v THEN i
    ELSE position_from(ch, v, i + 1)

locate_by_id(ch, v) == position_from(ch, v, 0)

(***************************************************************************)
(* Render requests and events.                                             *)
(***************************************************************************)
RenderData(i, r, m) == [id |-> i, rect |-> r, mode |-> m]

Expose(r, m) == [id |-> NoOwner, rect |-> r, mode |-> m]

Event(t, v, txt, r) == [type |-> t, view |-> v, text |-> txt, rect |-> r]

Ev(t, v) == Event(t, v, "", DefaultRect)

NoEvent == Ev("None", None)

(***************************************************************************)
(* The state a handler works on: the container's fields, the render queue, *)
(* the events it sends on the hub, the shared context and the Id feeder.   *)
(* A panic (an index out of range, an unwrap of None) sets aborted; every  *)
(* later step of the handler is skipped.                                   *)
(***************************************************************************)
Panic(s) == [s EXCEPT !.aborted = TRUE]

InRange(ch, i) == 0 <= i /\ i < Len(ch)

AddRq(s, rd) == [s EXCEPT !.rq = Append(@, rd)]

Send(s, e) == [s EXCEPT !.sent = Append(@, e)]

Handled(s, b) == [s EXCEPT !.handled = b]

\* rq.add(RenderData::new(self.child(i).id(), *self.child(i).rect(), mode))
AddChildRq(s, i, m) ==
    IF s.aborted THEN s
    ELSE IF ~InRange(s.children, i) THEN Panic(s)
    ELSE AddRq(s, RenderData(Child(s.children, i).id, Child(s.children, i).rect, m))

\* self.child_mut(i).resize(*self.child(i).rect() + pt!(0, dy), ..)
ShiftChild(s, i, dy) ==
    IF s.aborted THEN s
    ELSE IF ~InRange(s.children, i) THEN Panic(s)
    ELSE [s EXCEPT !.children = SetRect(@, i, ShiftY(Child(@, i).rect, dy))]

(***************************************************************************)
(* Constructors of the child views.                                        *)
(***************************************************************************)
Filler(i, r) == View("Filler", i, None, r)

TopBarRect(r) == Rect(r.min.x, r.min.y, r.max.x, r.min.y + small_height + big_thickness)

FaveRect(r, top_pos) == Rect(r.min.x, top_pos, r.max.x, top_pos + FaveHeight)

\* Keyboard::new(&mut kb_rect, ..): the keyboard fits its rows into the
\* rectangle it is given and moves the top edge down by the space left over.
KeyboardRect(r, gap) == Rect(r.min.x, r.min.y + gap, r.max.x, r.max.y)

MenuRect(r) == Rect(r.min.x, r.max.y, r.max.x, r.max.y + big_height)

(***************************************************************************)
(* Home::new                                                               *)
(***************************************************************************)
create_background(h) ==
    [h EXCEPT !.children = Append(@, Filler(h.next_id, h.rect)), !.next_id = @ + 1]

create_top_bar(h) ==
    [h EXCEPT !.children = Append(@, View("TopBar", h.next_id, None, TopBarRect(h.rect))),
              !.next_id = @ + 1]

create_marked_for_later(h, top_pos) ==
    [h EXCEPT !.children = Append(@, View("Fave", h.next_id, None, FaveRect(h.rect, top_pos))),
              !.next_id = @ + 1]

create_fav_search(h, top_pos) ==
    [h EXCEPT !.children = Append(@, View("Fave", h.next_id, None, FaveRect(h.rect, top_pos))),
              !.next_id = @ + 1]

\* create_bottom_bar with the bar pushed before its separator
create_bottom_bar_bar_first(h) ==
    LET r == h.rect
        separator == Filler(h.next_id,
                            Rect(r.min.x, r.max.y - small_height - small_thickness,
                                 r.max.x, r.max.y - small_height + big_thickness))
        bottom_bar == View("BottomBar", h.next_id + 1, None,
                           Rect(r.min.x, r.max.y - small_height + big_thickness,
                                r.max.x, r.max.y))
    IN [h EXCEPT !.children = @ \o <<bottom_bar, separator>>, !.next_id = @ + 2]

create_bottom_bar(h) ==
    LET r == h.rect
        separator == Filler(h.next_id,
                            Rect(r.min.x, r.max.y - small_height - small_thickness,
                                 r.max.x, r.max.y - small_height + big_thickness))
        bottom_bar == View("BottomBar", h.next_id + 1, None,
                           Rect(r.min.x, r.max.y - small_height + big_thickness,
                                r.max.x, r.max.y))
    IN [h EXCEPT !.children = @ \o <<separator, bottom_bar>>, !.next_id = @ + 2]

LastChild(h) == Child(h.children, Len(h.children) - 1)

\* the while loop of Home::new over the favourites
RECURSIVE fave_loop(_, _, _, _, _)
fave_loop(h, fav_index, nfaves, top_pos, bottom_bar_top) ==
    IF fav_index >= nfaves THEN h
    ELSE LET h1 == create_fav_search(h, top_pos)
             top1 == LastChild(h1).rect.max.y
             row_height == Height(LastChild(h1).rect)
         IN IF top1 + row_height > bottom_bar_top THEN h1
            ELSE fave_loop(h1, fav_index + 1, nfaves, top1, bottom_bar_top)

home_new(r, logged_in, nfaves) ==
    LET h0 == [rect |-> r, id |-> 1, children |-> <<>>, next_id |-> 2]
        h1 == create_top_bar(create_background(h0))
        top_bar == Child(h1.children, rlocate(h1.children, "TopBar"))
        top0 == Height(top_bar.rect)
        h2 == IF logged_in THEN create_marked_for_later(h1, top0) ELSE h1
        top1 == IF logged_in THEN LastChild(h2).rect.max.y ELSE top0
        bottom_bar_top == r.min.y
        h3 == fave_loop(h2, 0, nfaves, top1, bottom_bar_top)
        h4 == create_bottom_bar(h3)
    IN [rect |-> r, id |-> h0.id, children |-> h4.children,
        shelf_index |-> Len(h3.children) - 1, next_id |-> h4.next_id,
        rq |-> <<RenderData(h0.id, r, "Full")>>]

(***************************************************************************)
(* Home::open_search_bar                                                   *)
(***************************************************************************)
\* the rectangle of the child found by rlocate::<Keyboard>
keyboard_pos(ch) == Child(ch, rlocate(ch, "Keyboard")).rect

\* Filler::new(rect![self.rect.min.x, r.min.y - thickness, self.rect.max.x, r.min.y], BLACK)
separator_above(s, i, r) ==
    Filler(i, Rect(s.rect.min.x, r.min.y - thickness, s.rect.max.x, r.min.y))

search_rect(s, kp) == Rect(s.rect.min.x, kp.min.y - small_height, s.rect.max.x, kp.min.y)

\* the search bar and then its separator, both inserted at shelf_index + 1
insert_search_bar(s, ch2, sr) ==
    [s EXCEPT !.children =
                 InsertAt(InsertAt(ch2, shelf_index + 1,
                                   View("SearchBar", s.next_id + 2, None, sr)),
                          shelf_index + 1, separator_above(s, s.next_id + 3, sr)),
              !.next_id = @ + 4]

\* the keyboard's separator, inserted at index - 1, before the keyboard
insert_keyboard_separator(s, index, ch1) ==
    insert_search_bar(s,
        InsertAt(ch1, index - 1, separator_above(s, s.next_id + 1, keyboard_pos(ch1))),
        search_rect(s, keyboard_pos(ch1)))

\* the keyboard, inserted at index - 1, bottom-aligned on the bottom bar
insert_keyboard(s, index, bottom_bar) ==
    insert_keyboard_separator(s, index,
        InsertAt(s.children, index - 1,
                 View("Keyboard", s.next_id, None,
                      KeyboardRect(Rect(s.rect.min.x,
                                        bottom_bar.rect.min.y - (small_height + 3 * big_height)
                                            + big_thickness,
                                        s.rect.max.x, bottom_bar.rect.min.y),
                                   kb_gap))))

open_search_bar_at(s, index) ==
    IF index = NoIndex \/ index < 1 THEN Panic(s)
    ELSE insert_keyboard(s, index, Child(s.children, index))

open_search_bar(s) ==
    IF s.aborted THEN s ELSE open_search_bar_at(s, rlocate(s.children, "BottomBar"))

(***************************************************************************)
(* Home::toggle_keyboard                                                   *)
(***************************************************************************)
\* the trailing "if update { .. }" block of toggle_keyboard (Home and Works)
keyboard_update(s, enable, update, has_search_bar) ==
    IF ~update THEN s
    ELSE IF enable THEN
        IF has_search_bar
        THEN AddChildRq(AddChildRq(AddChildRq(AddChildRq(s,
                 shelf_index + 1, "Partial"), shelf_index + 2, "Gui"),
                 shelf_index + 3, "Gui"), shelf_index + 4, "Gui")
        ELSE AddChildRq(AddChildRq(s, shelf_index + 1, "Gui"), shelf_index + 2, "Gui")
    ELSE IF has_search_bar
        THEN AddChildRq(AddChildRq(s, shelf_index + 1, "Gui"), shelf_index + 2, "Gui")
        ELSE s

\* context.kb_rect = default; hub.send(Focus(None)); the expose request if update
keyboard_closed(s2, r, update) ==
    IF s2.aborted THEN s2
    ELSE IF update
    THEN AddRq(Send([s2 EXCEPT !.kb_rect = DefaultRect], Ev("Focus", None)), Expose(r, "Gui"))
    ELSE Send([s2 EXCEPT !.kb_rect = DefaultRect], Ev("Focus", None))

\* the drain of the keyboard and the child before it, and the shift of the
\* two children after the anchor by delta_y when has_search_bar
home_drain_keyboard(s, index, delta_y, has_search_bar) ==
    IF has_search_bar
    THEN ShiftChild(ShiftChild([s EXCEPT !.children = Drain(@, index - 1, index)],
                               shelf_index + 1, delta_y), shelf_index + 2, delta_y)
    ELSE [s EXCEPT !.children = Drain(@, index - 1, index)]

home_close_keyboard_by(s, index, y_min, delta_y, update, has_search_bar) ==
    keyboard_closed(home_drain_keyboard(s, index, delta_y, has_search_bar),
                    Rect(s.rect.min.x, y_min, s.rect.max.x, y_min + delta_y), update)

home_close_keyboard(s, index, update, has_search_bar) ==
    IF ~InRange(s.children, shelf_index + 1) \/ index < 1 THEN Panic(s)
    ELSE home_close_keyboard_by(s, index, Child(s.children, shelf_index + 1).rect.min.y,
             Height(Absorb(Child(s.children, index).rect, Child(s.children, index - 1).rect)),
             update, has_search_bar)

home_toggle_keyboard(s, enable, update, vid) ==
    IF s.aborted THEN s
    ELSE IF ~InRange(s.children, shelf_index + 2) THEN Panic(s)
    ELSE
    LET has_search_bar == Child(s.children, shelf_index + 2).type = "SearchBar"
        index == rlocate(s.children, "Keyboard")
    IN IF index # NoIndex
       THEN IF enable THEN s
            ELSE keyboard_update(home_close_keyboard(s, index, update, has_search_bar),
                                 enable, update, has_search_bar)
       ELSE IF ~enable THEN s
            ELSE keyboard_update(open_search_bar(s), enable, update, has_search_bar)

(***************************************************************************)
(* Home::toggle_search_bar; enable is "None", "Some(true)" or "Some(false)" *)
(***************************************************************************)
\* the trailing "if update { .. }" block of Home::toggle_search_bar
\* the two requests for the uncovered part of the shelf and the views on top
search_opened_requests(s1, shelf, y_top, y_end) ==
    AddRq(AddRq(s1, RenderData(shelf.id,
                               Rect(shelf.rect.min.x, shelf.rect.min.y, shelf.rect.max.x, y_top),
                               "Partial")),
          Expose(Rect(shelf.rect.min.x, y_top, shelf.rect.max.x, y_end), "Partial"))

search_opened_update(s1, end_index) ==
    IF s1.aborted THEN s1
    ELSE IF ~InRange(s1.children, shelf_index + 1) \/ ~InRange(s1.children, end_index)
    THEN Panic(s1)
    ELSE search_opened_requests(s1, Child(s1.children, shelf_index),
                                Child(s1.children, shelf_index + 1).rect.min.y,
                                Child(s1.children, end_index).rect.max.y)

home_search_update(s, search_visible, has_keyboard) ==
    IF s.aborted THEN s
    ELSE IF ~search_visible
    THEN AddChildRq(AddChildRq(AddRq(s, RenderData(id, s.rect, "Gui")),
             shelf_index - 1, "Partial"), shelf_index + 1, "Partial")
    ELSE search_opened_update(AddChildRq(s, shelf_index - 1, "Partial"),
                              shelf_index + (IF has_keyboard THEN 4 ELSE 2))

\* the shelf's bottom edge moves down by delta_y; the query is dropped
grow_shelf(s1, ch1, delta_y, update) ==
    IF ~InRange(ch1, shelf_index) THEN Panic([s1 EXCEPT !.children = ch1])
    ELSE IF update
    THEN home_search_update(
             [s1 EXCEPT !.children = SetRect(ch1, shelf_index,
                                        [Child(ch1, shelf_index).rect EXCEPT !.max.y = @ + delta_y]),
                        !.query = None], FALSE, FALSE)
    ELSE [s1 EXCEPT !.children = SetRect(ch1, shelf_index,
                                    [Child(ch1, shelf_index).rect EXCEPT !.max.y = @ + delta_y]),
                    !.query = None]

\* the search bar at index and its separator are drained; s1 is the view
\* after the keyboard has been closed
close_search_bar(s1, index, delta_y, update) ==
    IF s1.aborted THEN s1
    ELSE IF index < 1 \/ ~InRange(s1.children, index) THEN Panic(s1)
    ELSE grow_shelf(s1, Drain(s1.children, index - 1, index), delta_y, update)

\* the open branch sending Focus whatever the query is
search_bar_opened_always_focus(s1, update) ==
    IF s1.aborted THEN s1
    ELSE IF update
    THEN home_search_update(Send(s1, Ev("Focus", "SiteTextSearchInput")), TRUE, TRUE)
    ELSE Send(s1, Ev("Focus", "SiteTextSearchInput"))

\* s1 is the view after open_search_bar
search_bar_opened(s1, update) ==
    IF s1.aborted THEN s1
    ELSE IF update
    THEN home_search_update(IF s1.query = None
                            THEN Send(s1, Ev("Focus", "SiteTextSearchInput")) ELSE s1,
                            TRUE, TRUE)
    ELSE IF s1.query = None THEN Send(s1, Ev("Focus", "SiteTextSearchInput")) ELSE s1

home_toggle_search_bar_at(s, index, enable, update) ==
    IF index # NoIndex
    THEN IF enable = "Some(true)" THEN s
         ELSE close_search_bar(IF s.focus = "SiteTextSearchInput"
                               THEN home_toggle_keyboard(s, FALSE, FALSE, "SiteTextSearchInput")
                               ELSE s,
                               index, small_height, update)
    ELSE IF enable = "Some(false)" THEN s
         ELSE search_bar_opened(open_search_bar(s), update)

home_toggle_search_bar(s, enable, update) ==
    IF s.aborted THEN s
    ELSE home_toggle_search_bar_at(s, rlocate(s.children, "SearchBar"), enable, update)

(***************************************************************************)
(* The menu toggles of common.rs.                                          *)
(***************************************************************************)
\* the toggle pushing a menu without looking for one
toggle_menu_always_pushed(s, v, r, enable) ==
    IF s.aborted THEN s
    ELSE IF enable = "Some(false)" THEN s
    ELSE LET menu == View("Menu", s.next_id, v, MenuRect(r))
         IN [AddRq(s, RenderData(menu.id, menu.rect, "Gui"))
                EXCEPT !.children = Append(@, menu), !.next_id = @ + 1]

\* the toggle removing the last child when it finds the menu
toggle_menu_last_removed(s, v, r, enable) ==
    IF s.aborted THEN s
    ELSE
    LET index == locate_by_id(s.children, v)
        last_index == Len(s.children) - 1 IN
    IF index # NoIndex
    THEN IF enable = "Some(true)" THEN s
         ELSE [AddRq(s, Expose(Child(s.children, last_index).rect, "Gui"))
                  EXCEPT !.children = Drain(@, last_index, last_index)]
    ELSE IF enable = "Some(false)" THEN s
         ELSE LET menu == View("Menu", s.next_id, v, MenuRect(r))
              IN [AddRq(s, RenderData(menu.id, menu.rect, "Gui"))
                     EXCEPT !.children = Append(@, menu), !.next_id = @ + 1]

toggle_menu(s, v, r, enable) ==
    IF s.aborted THEN s
    ELSE
    LET index == locate_by_id(s.children, v) IN
    IF index # NoIndex
    THEN IF enable = "Some(true)" THEN s
         ELSE [AddRq(s, Expose(Child(s.children, index).rect, "Gui"))
                  EXCEPT !.children = Drain(@, index, index)]
    ELSE IF enable = "Some(false)" THEN s
         ELSE LET menu == View("Menu", s.next_id, v, MenuRect(r))
              IN [AddRq(s, RenderData(menu.id, menu.rect, "Gui"))
                     EXCEPT !.children = Append(@, menu), !.next_id = @ + 1]

toggle_main_menu(s, r, enable) == toggle_menu(s, "MainMenu", r, enable)

toggle_battery_menu(s, r, enable) == toggle_menu(s, "BatteryMenu", r, enable)

toggle_clock_menu(s, r, enable) == toggle_menu(s, "ClockMenu", r, enable)

\* has_history: context.input_history holds entries for the input
toggle_input_history_menu(s, r, enable, has_history) ==
    IF locate_by_id(s.children, "InputHistoryMenu") = NoIndex /\ ~has_history THEN s
    ELSE toggle_menu(s, "InputHistoryMenu", r, enable)

toggle_keyboard_layout_menu(s, r, enable) == toggle_menu(s, "KeyboardLayoutMenu", r, enable)

(***************************************************************************)
(* Home::reseed and Home::handle_event                                     *)
(***************************************************************************)
\* reseed with the two ticks sent in the other order
home_reseed_battery_first(s) ==
    IF ~InRange(s.children, 1) THEN Panic(s)
    ELSE LET s1 == IF Child(s.children, 1).type = "TopBar"
                   THEN Send(Send(s, Ev("BatteryTick", None)), Ev("ClockTick", None))
                   ELSE s
         IN AddRq(s1, RenderData(id, s.rect, "Gui"))

home_reseed(s) ==
    IF ~InRange(s.children, 1) THEN Panic(s)
    ELSE LET s1 == IF Child(s.children, 1).type = "TopBar"
                   THEN Send(Send(s, Ev("ClockTick", None)), Ev("BatteryTick", None))
                   ELSE s
         IN AddRq(s1, RenderData(id, s.rect, "Gui"))

\* s2 is the view after the keyboard and the search bar have been closed
home_submitted(s2, text) ==
    IF s2.aborted THEN s2
    ELSE Send(AddRq(s2, RenderData(id, s2.rect, "Gui")),
              Event("LoadSearch", None, text, DefaultRect))

home_submit(s, text) ==
    IF text # None
    THEN home_submitted(
             home_toggle_search_bar(
                 home_toggle_keyboard([s EXCEPT !.query = text], FALSE, FALSE, None),
                 "Some(false)", FALSE),
             text)
    ELSE [s EXCEPT !.query = text,
                   !.children = Append(@, View("Notification", s.next_id, None, s.rect)),
                   !.next_id = @ + 1]

\* Focus without the "self.focus != v" test
home_focus_unguarded(s, v) ==
    LET s1 == [s EXCEPT !.focus = v]
    IN IF v # None THEN home_toggle_keyboard(s1, TRUE, TRUE, v) ELSE s1

home_focus(s, v) ==
    IF s.focus # v
    THEN LET s1 == [s EXCEPT !.focus = v]
         IN IF v # None THEN home_toggle_keyboard(s1, TRUE, TRUE, v) ELSE s1
    ELSE s

home_handle_event(s, e) ==
    CASE e.type = "Reseed" -> Handled(home_reseed(s), TRUE)
      [] e.type = "ToggleNear" /\ e.view = "MainMenu" ->
            Handled(toggle_main_menu(s, e.rect, "None"), TRUE)
      [] e.type = "ToggleNear" /\ e.view = "BatteryMenu" ->
            Handled(toggle_battery_menu(s, e.rect, "None"), TRUE)
      [] e.type = "ToggleNear" /\ e.view = "ClockMenu" ->
            Handled(toggle_clock_menu(s, e.rect, "None"), TRUE)
      [] e.type = "Close" /\ e.view = "MainMenu" ->
            Handled(toggle_main_menu(s, DefaultRect, "Some(false)"), TRUE)
      [] e.type = "Toggle" /\ e.view = "SearchBar" ->
            Handled(home_toggle_search_bar(s, "None", TRUE), TRUE)
      [] e.type = "ToggleNear" /\ e.view = "SearchMenu" ->
            Handled(Send(s, Ev("SubmitInput", "SiteTextSearchInput")), TRUE)
      [] e.type = "Close" /\ e.view = "SearchBar" ->
            Handled(home_toggle_search_bar(s, "Some(false)", TRUE), TRUE)
      [] e.type = "Submit" /\ e.view = "SiteTextSearchInput" ->
            Handled(home_submit(s, e.text), TRUE)
      [] e.type = "Focus" -> Handled(home_focus(s, e.view), TRUE)
      [] OTHER -> Handled(s, FALSE)

(***************************************************************************)
(* Works::new, Works::toggle_keyboard, toggle_go_to_page, toggle_sort_menu *)
(***************************************************************************)
NamedInputRect(r) ==
    Rect(r.min.x + 150, r.min.y + 200, r.max.x - 150, r.min.y + 200 + 2 * small_height)

works_new(r) ==
    LET top_bar == View("TopBar", 2, None, TopBarRect(r))
        y_start == r.min.y + small_height + big_thickness
        workindex == View("WorkIndex", 3, None, Rect(r.min.x, y_start, r.max.x, r.max.y))
    IN [rect |-> r, id |-> 1, children |-> <<top_bar, workindex>>, shelf_index |-> 1,
        next_id |-> 4, rq |-> <<RenderData(1, r, "Full")>>]

works_close_keyboard(s, index, update) ==
    IF ~InRange(s.children, shelf_index + 1) \/ index < 1 THEN Panic(s)
    ELSE
    LET y_min == Child(s.children, shelf_index + 1).rect.min.y
        r == Absorb(Child(s.children, index).rect, Child(s.children, index - 1).rect)
        s1 == [s EXCEPT !.children = Drain(@, index - 1, index)]
        delta_y == Height(r)
        s2 == Send(s1, Ev("Focus", None))
    IN IF update
       THEN AddRq(s2, Expose(Rect(s.rect.min.x, y_min, s.rect.max.x, y_min + delta_y), "Gui"))
       ELSE s2

works_open_keyboard(s) ==
    LET kb_rect0 == Rect(s.rect.min.x,
                         s.rect.max.y - (small_height + 3 * big_height) + big_thickness,
                         s.rect.max.x,
                         s.rect.max.y - small_height - small_thickness)
        kb_rect1 == KeyboardRect(kb_rect0, kb_gap)
        keyboard == View("Keyboard", s.next_id, None, kb_rect1)
        separator == Filler(s.next_id + 1,
                            Rect(s.rect.min.x, kb_rect1.min.y - thickness,
                                 s.rect.max.x, kb_rect1.min.y))
    IN [s EXCEPT !.children = @ \o <<keyboard, separator>>, !.next_id = @ + 2,
                 !.kb_rect = kb_rect1]

works_toggle_keyboard(s, enable, update, vid) ==
    IF s.aborted THEN s
    ELSE IF ~InRange(s.children, shelf_index + 1) THEN Panic(s)
    ELSE
    LET has_search_bar == Child(s.children, shelf_index + 1).type = "SearchBar"
        index == rlocate(s.children, "Keyboard")
    IN IF index # NoIndex
       THEN IF enable THEN s
            ELSE keyboard_update(works_close_keyboard(s, index, update),
                                 enable, update, has_search_bar)
       ELSE IF ~enable THEN s
            ELSE keyboard_update(works_open_keyboard(s), enable, update, has_search_bar)

\* the body of Works::toggle_search_bar is commented out
works_toggle_search_bar(s, enable, update) == s

toggle_go_to_page(s, enable) ==
    IF s.aborted THEN s
    ELSE
    LET index == locate_by_id(s.children, "GoToPage") IN
    IF index # NoIndex
    THEN IF enable = "Some(true)" THEN s
         ELSE LET s1 == [AddRq(s, Expose(Child(s.children, index).rect, "Gui"))
                            EXCEPT !.children = Drain(@, index, index)]
              IN IF s1.focus = "GoToPageInput"
                 THEN works_toggle_keyboard(s1, FALSE, TRUE, "GoToPageInput")
                 ELSE s1
    ELSE IF enable = "Some(false)" THEN s
         ELSE IF s.pages_count < 2 THEN s
         ELSE LET go_to_page == View("NamedInput", s.next_id, "GoToPage", NamedInputRect(s.rect))
              IN [Send(AddRq(s, RenderData(go_to_page.id, go_to_page.rect, "Gui")),
                       Ev("Focus", "GoToPageInput"))
                     EXCEPT !.children = Append(@, go_to_page), !.next_id = @ + 1]

toggle_sort_menu(s, r, enable) == toggle_menu(s, "SortMenu", r, enable)

works_reseed(s) ==
    IF ~InRange(s.children, 0) THEN Panic(s)
    ELSE LET s1 == IF Child(s.children, 0).type = "TopBar"
                   THEN Send(Send(s, Ev("ClockTick", None)), Ev("BatteryTick", None))
                   ELSE s
         IN AddRq(s1, RenderData(id, s.rect, "Gui"))

\* the Focus arm closing the keyboard when the focus is given up
works_focus_closing(s, v) ==
    IF s.focus # v
    THEN LET s1 == [s EXCEPT !.focus = v]
         IN IF v # None THEN works_toggle_keyboard(s1, TRUE, TRUE, v)
            ELSE works_toggle_keyboard(s1, FALSE, TRUE, v)
    ELSE s

works_focus(s, v) ==
    IF s.focus # v
    THEN LET s1 == [s EXCEPT !.focus = v]
         IN IF v # None THEN works_toggle_keyboard(s1, TRUE, TRUE, v) ELSE s1
    ELSE s

\* usize::saturating_sub
saturating_sub(a, b) == IF a > b THEN a - b ELSE 0

\* BookQuery::new(text): None when the text is not a valid query
InvalidQueries == {"["}

BookQuery(text) == IF text \in InvalidQueries THEN None ELSE text

\* refresh_visibles(true, ..): the anchor is downcast to WorkIndex and unwrapped,
\* then update_shelf has the work index redraw itself
refresh_visibles(s, reset_page) ==
    IF s.aborted THEN s
    ELSE IF ~InRange(s.children, shelf_index) THEN Panic(s)
    ELSE IF Child(s.children, shelf_index).type # "WorkIndex" THEN Panic(s)
    ELSE AddChildRq([s EXCEPT !.current_page =
                         IF reset_page THEN 0
                         ELSE IF @ >= s.pages_count THEN saturating_sub(s.pages_count, 1)
                         ELSE @],
                    shelf_index, "Partial")

\* s1 is the view after the query has been stored
works_submit_search(s1) ==
    IF s1.query # None
    THEN refresh_visibles(
             AddChildRq(AddChildRq(works_toggle_keyboard(s1, FALSE, FALSE, None),
                                   shelf_index + 1, "Gui"), shelf_index + 2, "Gui"),
             TRUE)
    ELSE [s1 EXCEPT !.children = Append(@, View("Notification", s1.next_id,
                                                "InvalidSearchQueryNotif", s1.rect)),
                    !.next_id = @ + 1]

\* the tag locations an event can name, and the number of pages the index
\* loaded from each reports (WorkIndex::new, max_page)
TagLocations == {"tags/none", "tags/a", "tags/b"}

MaxPageOf(loc) == IF loc = "tags/none" THEN 0 ELSE IF loc = "tags/a" THEN 1 ELSE MaxPages

\* the page the loaded index reports as its current one: its last page
CurrentPageOf(loc) == saturating_sub(MaxPageOf(loc), 1)

\* the Event::GoToTag arm: a new WorkIndex with the rectangle of the one at
\* shelf_index is pushed and swapped into its place
works_go_to_tag(s, loc) ==
    IF ~InRange(s.children, shelf_index) THEN Panic(s)
    ELSE IF Child(s.children, shelf_index).type # "WorkIndex" THEN Panic(s)
    ELSE LET workindex == View("WorkIndex", s.next_id, None,
                               Child(s.children, shelf_index).rect)
         IN [s EXCEPT !.pages_count = MaxPageOf(loc),
                      !.current_page = CurrentPageOf(loc),
                      !.children = [@ EXCEPT ![shelf_index + 1] = workindex],
                      !.next_id = @ + 1]

\* update_shelf(false, ..): the anchor is downcast to WorkIndex and
\* unwrapped, then the work index shows the current page and redraws itself
update_shelf_page(s) ==
    IF s.aborted THEN s
    ELSE IF ~InRange(s.children, shelf_index) THEN Panic(s)
    ELSE IF Child(s.children, shelf_index).type # "WorkIndex" THEN Panic(s)
    ELSE AddChildRq(s, shelf_index, "Partial")

\* go_to_page without the test of the index
go_to_page_unchecked(s, index) ==
    update_shelf_page([s EXCEPT !.current_page = index])

go_to_page(s, index) ==
    IF index >= s.pages_count THEN s
    ELSE update_shelf_page([s EXCEPT !.current_page = index])

go_to_neighbor(s, dir) ==
    IF dir = "Next" /\ s.current_page < saturating_sub(s.pages_count, 1)
    THEN update_shelf_page([s EXCEPT !.current_page = @ + 1])
    ELSE IF dir = "Previous" /\ s.current_page > 0
    THEN update_shelf_page([s EXCEPT !.current_page = @ - 1])
    ELSE s

\* the decimal numerals of the page numbers a text can spell
Numerals == <<"0", "1", "2", "3", "4", "5">>

\* text.parse::<usize>(): the number, or Err for a text that is no numeral
ParseErr == -1

parse_usize(text) ==
    IF \E n \in 1..Len(Numerals) : Numerals[n] = text
    THEN (CHOOSE n \in 1..Len(Numerals) : Numerals[n] = text) - 1
    ELSE ParseErr

\* the Submit(GoToPageInput, text) arm; e.rng is what context.rng.next_u64()
\* returns, read by the "_" branch only
works_submit_go_to_page(s, e) ==
    IF e.text = "(" THEN go_to_page(s, 0)
    ELSE IF e.text = ")" THEN go_to_page(s, saturating_sub(s.pages_count, 1))
    ELSE IF e.text = "_"
    THEN IF s.pages_count = 0 THEN Panic(s)
         ELSE go_to_page(s, e.rng % s.pages_count)
    ELSE IF parse_usize(e.text) # ParseErr
    THEN go_to_page(s, saturating_sub(parse_usize(e.text), 1))
    ELSE s

\* sort(true, ..) after current_page = 0: update_shelf and update_top_bar
works_sort(s) ==
    IF locate(s.children, "TopBar") # NoIndex
    THEN AddChildRq(update_shelf_page([s EXCEPT !.current_page = 0]),
                    locate(s.children, "TopBar"), "Gui")
    ELSE update_shelf_page([s EXCEPT !.current_page = 0])

\* the Gesture(Arrow { dir }) arm
works_arrow(s, dir) ==
    CASE dir = "West" -> go_to_page(s, 0)
      [] dir = "East" -> go_to_page(s, saturating_sub(s.pages_count, 1))
      [] dir = "South" -> works_toggle_search_bar(s, "None", TRUE)
      [] OTHER -> s

\* the Chapter(dir) arm
works_chapter(s, dir) ==
    IF dir = "Previous" THEN go_to_page(s, 0)
    ELSE go_to_page(s, saturating_sub(s.pages_count, 1))

works_handle_event(s, e) ==
    CASE e.type = "Focus" -> Handled(works_focus(s, e.view), TRUE)
      [] e.type = "Arrow" -> Handled(works_arrow(s, e.view), TRUE)
      [] e.type = "Submit" /\ e.view = "GoToPageInput" ->
            Handled(works_submit_go_to_page(s, e), TRUE)
      [] e.type = "Select" /\ e.view \in {"Sort", "ReverseOrder"} ->
            Handled(works_sort(s), TRUE)
      [] e.type = "Select" /\ e.view = "ToggleShowHidden" ->
            Handled(refresh_visibles(s, FALSE), TRUE)
      [] e.type = "GoTo" -> Handled(go_to_page(s, parse_usize(e.text)), TRUE)
      [] e.type = "Chapter" -> Handled(works_chapter(s, e.view), TRUE)
      [] e.type = "Page" -> Handled(go_to_neighbor(s, e.view), TRUE)
      [] e.type = "Button" /\ e.view = "Backward" ->
            Handled(go_to_neighbor(s, "Previous"), TRUE)
      [] e.type = "Button" /\ e.view = "Forward" ->
            Handled(go_to_neighbor(s, "Next"), TRUE)
      [] e.type = "GoToTag" -> Handled(works_go_to_tag(s, e.text), FALSE)
      [] e.type = "Submit" /\ e.view = "HomeSearchInput" ->
            Handled(works_submit_search([s EXCEPT !.query = BookQuery(e.text)]), TRUE)
      [] e.type = "Show" /\ e.view = "Keyboard" ->
            Handled(works_toggle_keyboard(s, TRUE, TRUE, None), TRUE)
      [] e.type = "Toggle" /\ e.view = "GoToPage" ->
            Handled(toggle_go_to_page(s, "None"), TRUE)
      [] e.type = "Toggle" /\ e.view = "SearchBar" ->
            Handled(works_toggle_search_bar(s, "None", TRUE), TRUE)
      [] e.type = "ToggleNear" /\ e.view = "TitleMenu" ->
            Handled(toggle_sort_menu(s, e.rect, "None"), TRUE)
      [] e.type = "ToggleNear" /\ e.view = "MainMenu" ->
            Handled(toggle_main_menu(s, e.rect, "None"), TRUE)
      [] e.type = "ToggleNear" /\ e.view = "BatteryMenu" ->
            Handled(toggle_battery_menu(s, e.rect, "None"), TRUE)
      [] e.type = "ToggleNear" /\ e.view = "ClockMenu" ->
            Handled(toggle_clock_menu(s, e.rect, "None"), TRUE)
      [] e.type = "Close" /\ e.view = "SearchBar" ->
            Handled(works_toggle_search_bar(s, "Some(false)", TRUE), TRUE)
      [] e.type = "Close" /\ e.view = "SortMenu" ->
            Handled(toggle_sort_menu(s, DefaultRect, "Some(false)"), TRUE)
      [] e.type = "Close" /\ e.view = "MainMenu" ->
            Handled(toggle_main_menu(s, DefaultRect, "Some(false)"), TRUE)
      [] e.type = "Close" /\ e.view = "GoToPage" ->
            Handled(toggle_go_to_page(s, "Some(false)"), TRUE)
      [] e.type = "Submit" /\ e.view = "AddressBarInput" ->
            Handled(works_toggle_keyboard(s, FALSE, TRUE, None), TRUE)
      [] e.type = "Reseed" -> Handled(works_reseed(s), TRUE)
      [] OTHER -> Handled(s, FALSE)

(***************************************************************************)
(* Works::resize                                                           *)
(***************************************************************************)
\* self.children[i].resize(r, hub, rq, context)
resize_child(s, i, r) ==
    IF s.aborted THEN s
    ELSE IF ~InRange(s.children, i) THEN Panic(s)
    ELSE [s EXCEPT !.children = SetRect(@, i, r)]

\* the floating windows: every child after the bottom bar takes the whole rectangle
RECURSIVE resize_floating(_, _, _)
resize_floating(s, r, i) ==
    IF s.aborted \/ i >= Len(s.children) THEN s
    ELSE resize_floating(resize_child(s, i, r), r, i + 1)

\* update_shelf(true, ..): the anchor is downcast to WorkIndex and unwrapped
update_shelf(s) ==
    IF s.aborted THEN s
    ELSE IF ~InRange(s.children, shelf_index) THEN Panic(s)
    ELSE IF Child(s.children, shelf_index).type # "WorkIndex" THEN Panic(s)
    ELSE s

\* s3 is the view with every child resized: self.rect = rect and the Full request
works_resize_done(s3, r) ==
    IF s3.aborted THEN s3
    ELSE AddRq([s3 EXCEPT !.rect = r], RenderData(id, r, "Full"))

\* the shelf, update_shelf(true, ..) and the floating windows
works_resize_shelf(s, r, bottom_bar_index, shelf_max_y) ==
    works_resize_done(
        resize_floating(update_shelf(resize_child(s, shelf_index,
            Rect(r.min.x, r.min.y + small_height + big_thickness, r.max.x, shelf_max_y))),
            r, bottom_bar_index + 1),
        r)

\* the search bar at index takes the band above the child after it
resize_search_bar(s, r, index, sp_rect) ==
    resize_child(resize_child(s, index, Rect(r.min.x, sp_rect.max.y, r.max.x,
                                             sp_rect.max.y + small_height - thickness)),
                 index - 1, sp_rect)

works_resize_search(s, r, bottom_bar_index, index, shelf_max_y) ==
    IF s.aborted THEN s
    ELSE IF ~InRange(s.children, index) THEN Panic(s)
    ELSE IF Child(s.children, index).type = "SearchBar"
    THEN IF ~InRange(s.children, index + 1) \/ index < 1 THEN Panic(s)
         ELSE works_resize_shelf(
                  resize_search_bar(s, r, index,
                                    ShiftY(Child(s.children, index + 1).rect, 0 - small_height)),
                  r, bottom_bar_index, shelf_max_y - small_height)
    ELSE works_resize_shelf(s, r, bottom_bar_index, shelf_max_y)

\* s1 is the view with the keyboard resized: its separator sits on its top edge
resize_keyboard_separator(s1, r, index) ==
    IF s1.aborted THEN s1
    ELSE resize_child(s1, index - 1,
                      Rect(r.min.x, Child(s1.children, index).rect.min.y - thickness,
                           r.max.x, Child(s1.children, index).rect.min.y))

works_resize_keyboard(s, r, bottom_bar_index, index, shelf_max_y) ==
    IF s.aborted THEN s
    ELSE IF ~InRange(s.children, index) THEN Panic(s)
    ELSE IF Child(s.children, index).type = "Keyboard"
    THEN IF index < 2 THEN Panic(s)
         ELSE works_resize_search(
                  resize_keyboard_separator(
                      resize_child(s, index,
                          KeyboardRect(Rect(r.min.x,
                                            r.max.y - (small_height + 3 * big_height)
                                                + big_thickness,
                                            r.max.x, r.max.y - small_height - small_thickness),
                                       kb_gap)),
                      r, index),
                  r, bottom_bar_index, index - 2, shelf_max_y)
    ELSE works_resize_search(s, r, bottom_bar_index, index, shelf_max_y)

\* "if index - self.shelf_index > 2": the subtraction is on usize
works_resize_overlay(s, r, bottom_bar_index) ==
    IF s.aborted THEN s
    ELSE IF bottom_bar_index < shelf_index THEN Panic(s)
    ELSE IF bottom_bar_index - shelf_index > 2
    THEN works_resize_keyboard(s, r, bottom_bar_index, bottom_bar_index - 2,
                               r.max.y - small_height - small_thickness)
    ELSE works_resize_shelf(s, r, bottom_bar_index, r.max.y - small_height - small_thickness)

\* rlocate::<BottomBar>(self).unwrap(), then the bottom bar and its separator
works_resize_bottom_bar(s, r, index) ==
    IF index = NoIndex \/ index < 1 THEN Panic(s)
    ELSE works_resize_overlay(
             resize_child(resize_child(s, index - 1,
                              Rect(r.min.x, r.max.y - small_height - small_thickness,
                                   r.max.x, r.max.y - small_height + big_thickness)),
                          index, Rect(r.min.x, r.max.y - small_height + big_thickness,
                                      r.max.x, r.max.y)),
             r, index)

\* s1 is the view without its menus and with children 0 and 1 resized
works_resize_bottom(s1, r) ==
    IF s1.aborted THEN s1
    ELSE works_resize_bottom_bar(s1, r, rlocate(s1.children, "BottomBar"))

works_resize(s, r) ==
    works_resize_bottom(
        resize_child(resize_child([s EXCEPT !.children = SelectSeq(@, LAMBDA c : c.type # "Menu")],
                         0, Rect(r.min.x, r.min.y, r.max.x, r.min.y + small_height - small_thickness)),
                     1, Rect(r.min.x, r.min.y + small_height - small_thickness,
                             r.max.x, r.min.y + small_height + big_thickness)),
        r)

(***************************************************************************)
(* The state machine.  The main loop takes one event at a time from the    *)
(* channel and the container handles it to completion.  An event is either *)
(* an input event (a tap that a child view turned into Toggle, Close,      *)
(* Focus, Submit, ...), which may have been queued before or after the     *)
(* follow-up events still in the channel, or the oldest follow-up event    *)
(* that a handler sent on the hub.  What a handler sends is appended to    *)
(* the channel.  The render queue holds the requests of the current cycle: *)
(* the display driver has consumed the earlier ones.                       *)
(***************************************************************************)
Texts == {"", "fic"}

IconRect(v) ==
    CASE v = "MainMenu" -> Rect(532, 0, 600, 68)
      [] v = "BatteryMenu" -> Rect(464, 0, 532, 68)
      [] v = "ClockMenu" -> Rect(396, 0, 464, 68)
      [] OTHER -> Rect(68, 0, 396, 68)

Has(ch, T) == \E i \in 1..Len(ch) : ch[i].type = T

HasId(ch, v) == \E i \in 1..Len(ch) : ch[i].view_id = v

Count(ch, T) == Cardinality({i \in 1..Len(ch) : ch[i].type = T})

\* the events the main loop can hand to Home: every event Home::handle_event matches
HomeEvents ==
    {Ev("Toggle", "SearchBar"), Ev("Close", "SearchBar"), Ev("Close", "MainMenu"),
     Ev("Reseed", None), Ev("ToggleNear", "SearchMenu"), Ev("Focus", "SiteTextSearchInput"),
     Event("ToggleNear", "MainMenu", "", IconRect("MainMenu"))}
    \cup {Event("Submit", "SiteTextSearchInput", txt, DefaultRect) : txt \in Texts}

\* the events the main loop can hand to Works
WorksEvents ==
    {Ev("Toggle", "GoToPage"), Ev("Close", "GoToPage"), Ev("Toggle", "SearchBar"),
     Ev("Close", "SearchBar"), Ev("Close", "SortMenu"), Ev("Close", "MainMenu"),
     Ev("Show", "Keyboard"), Ev("Reseed", None), Ev("Focus", "GoToPageInput"),
     Event("Submit", "AddressBarInput", "fic", DefaultRect)}
    \cup {Event("ToggleNear", v, "", IconRect(v)) : v \in {"TitleMenu", "MainMenu"}}

InputEvents == IF container = "Home" THEN HomeEvents ELSE WorksEvents

Snapshot ==
    [children |-> children, rect |-> rect, focus |-> focus, query |-> query,
     kb_rect |-> kb_rect, next_id |-> next_id, hub |-> hub]

NoLookup == [op |-> "none", arg |-> None, res |-> NoIndex, before |-> <<>>]

\* no RotationValues view has been built
NoRotationValues ==
    [taps_count |-> 0, read_rotation |-> 0, written_rotation |-> 0, display |-> 0,
     fb |-> 0, set |-> <<>>, read |-> <<>>]

\* no HttpClient has been built; remember_me and login_cookie are the settings
\* it is built from, call, res, called, value and returned its last call
NoClient ==
    [built |-> FALSE, remember_me |-> FALSE, login_cookie |-> FALSE,
     logged_in |-> FALSE, cookie_set |-> FALSE, login_ok |-> FALSE,
     call |-> "none", res |-> [kind |-> "none", body |-> {}], called |-> FALSE,
     value |-> FALSE, returned |-> FALSE]

NoLast == [evt |-> NoEvent, src |-> "none", handled |-> FALSE,
           pre |-> [children |-> <<>>, rect |-> DefaultRect, focus |-> None, query |-> None,
                    kb_rect |-> DefaultRect, next_id |-> 0, hub |-> <<>>]]

InitHome ==
    /\ container = "Home"
    /\ \E logged_in \in BOOLEAN, nfaves \in 0..MaxFaves :
          LET h == home_new(HomeRect, logged_in, nfaves)
          IN /\ rect = h.rect /\ id = h.id /\ children = h.children
             /\ shelf_index = h.shelf_index /\ next_id = h.next_id /\ rq = h.rq
    /\ pages_count = 0 /\ current_page = 0

InitWorks ==
    /\ container = "Works"
    /\ LET w == works_new(HomeRect)
       IN /\ rect = w.rect /\ id = w.id /\ children = w.children
          /\ shelf_index = w.shelf_index /\ next_id = w.next_id /\ rq = w.rq
    /\ pages_count \in 0..MaxPages /\ current_page = 0

Init ==
    /\ InitHome \/ InitWorks
    /\ focus = None /\ query = None
    /\ hub = <<>> /\ kb_rect = DefaultRect /\ aborted = FALSE
    /\ last = NoLast
    /\ first_id = next_id
    /\ lk_result = NoLookup /\ rv = NoRotationValues /\ client = NoClient

\* the container, the context and the Id feeder as a handler finds them
Cur ==
    [children |-> children, rect |-> rect, focus |-> focus, query |-> query,
     pages_count |-> pages_count, current_page |-> current_page,
     rq |-> <<>>, sent |-> <<>>,
     kb_rect |-> kb_rect, next_id |-> next_id, aborted |-> FALSE, handled |-> FALSE]

handle_event(s, e) ==
    IF container = "Home" THEN home_handle_event(s, e) ELSE works_handle_event(s, e)

\* a panic has ended the process while it handled e: the container, its
\* render queue and the channel are gone
Crash(e, src) ==
    /\ aborted' = TRUE
    /\ children' = <<>> /\ rect' = DefaultRect
    /\ focus' = None /\ query' = None /\ pages_count' = 0 /\ current_page' = 0
    /\ rq' = <<>> /\ hub' = <<>> /\ kb_rect' = DefaultRect
    /\ next_id' = first_id
    /\ last' = [NoLast EXCEPT !.evt = e, !.src = src]
    /\ UNCHANGED <<container, id, shelf_index, first_id, lk_result, rv, client>>

\* the handler has returned s1: its effects on the container, the requests it
\* queued and, behind rest, the events it sent
Return(s1, e, src, rest) ==
    /\ children' = s1.children
    /\ rect' = s1.rect
    /\ focus' = s1.focus
    /\ query' = s1.query
    /\ pages_count' = s1.pages_count
    /\ current_page' = s1.current_page
    /\ rq' = s1.rq
    /\ hub' = rest \o s1.sent
    /\ kb_rect' = s1.kb_rect
    /\ next_id' = s1.next_id
    /\ aborted' = FALSE
    /\ last' = [evt |-> e, src |-> src, handled |-> s1.handled, pre |-> Snapshot]
    /\ UNCHANGED <<container, id, shelf_index, first_id, lk_result, rv, client>>

\* handle_event(e) on the container, with what it sent appended to rest
Handle(e, src, rest) ==
    \E s1 \in {handle_event(Cur, e)} :
       IF s1.aborted THEN Crash(e, src) ELSE Return(s1, e, src, rest)

Input ==
    /\ ~aborted
    /\ container \in {"Home", "Works"}
    /\ Len(hub) < MaxHub
    /\ next_id - first_id <= MaxNew
    /\ \E e \in InputEvents : Handle(e, "input", hub)

Deliver ==
    /\ ~aborted
    /\ hub # <<>>
    /\ Handle(Head(hub), "hub", Tail(hub))

Next == Input \/ Deliver

Spec == Init /\ [][Next]_vars

(***************************************************************************)
(* Works on its own, with its search submissions and with resize.          *)
(***************************************************************************)
\* the search texts submitted to Works: a valid query and an invalid one
WorksSearchEvents ==
    {Event("Submit", "HomeSearchInput", txt, DefaultRect) : txt \in {"fic"} \cup InvalidQueries}
        \cup {Event("GoToTag", None, loc, DefaultRect) : loc \in TagLocations}

\* an invalid search text is submitted only while fewer than MaxNotif
\* notifications are up
Submittable(e) ==
    (e.type = "Submit" /\ e.text \in InvalidQueries) => Count(children, "Notification") < MaxNotif

InitWorksOnly ==
    /\ InitWorks
    /\ focus = None /\ query = None
    /\ hub = <<>> /\ kb_rect = DefaultRect /\ aborted = FALSE
    /\ last = NoLast
    /\ first_id = next_id
    /\ lk_result = NoLookup /\ rv = NoRotationValues /\ client = NoClient

InputWorks ==
    /\ ~aborted
    /\ Len(hub) < MaxHub
    /\ next_id - first_id <= MaxNew
    /\ \E e \in WorksEvents \cup WorksSearchEvents : Submittable(e) /\ Handle(e, "input", hub)

DeliverWorks ==
    /\ ~aborted
    /\ hub # <<>>
    /\ next_id - first_id <= MaxNew
    /\ Handle(Head(hub), "hub", Tail(hub))

\* the rectangles the screen can have: portrait and landscape
ResizeRects == {HomeRect, Rect(0, 0, 800, 600)}

\* the main loop has Works take a new rectangle (the screen was rotated)
Resize ==
    /\ ~aborted
    /\ container = "Works"
    /\ \E r \in ResizeRects :
          \E s1 \in {Handled(works_resize(Cur, r), TRUE)} :
             IF s1.aborted THEN Crash(Event("Resize", None, "", r), "input")
             ELSE Return(s1, Event("Resize", None, "", r), "input", hub)

NextWorks == InputWorks \/ DeliverWorks \/ Resize

SpecWorks == InitWorksOnly /\ [][NextWorks]_vars

(***************************************************************************)
(* The lookup protocol on its own: a view with an arbitrary child sequence *)
(* and the three lookups of common.rs applied to it.                       *)
(***************************************************************************)
LookupTypes == {"Filler", "SearchBar"}

LookupIds == {None, "MainMenu"}

LookupViews == {View(t, NoOwner, v, DefaultRect) : t \in LookupTypes, v \in LookupIds}

LookupChildren == UNION {[1..n -> LookupViews] : n \in 0..MaxLookupLen}

InitLookup ==
    /\ container = "Lookup"
    /\ children \in LookupChildren
    /\ rect = HomeRect /\ id = 1 /\ shelf_index = 0
    /\ focus = None /\ query = None /\ pages_count = 0 /\ current_page = 0
    /\ rq = <<>> /\ hub = <<>> /\ kb_rect = DefaultRect
    /\ next_id = 2 /\ first_id = 2 /\ aborted = FALSE
    /\ last = NoLast
    /\ lk_result = NoLookup /\ rv = NoRotationValues /\ client = NoClient

Lookup(op, arg, res) ==
    /\ container = "Lookup"
    /\ lk_result' = [op |-> op, arg |-> arg, res |-> res, before |-> children]
    /\ UNCHANGED <<container, rect, id, children, shelf_index, focus, query, pages_count,
                   current_page, rq, hub, kb_rect, next_id, aborted, last, first_id,
                   rv, client>>

Locate == \E T \in LookupTypes \cup {"Keyboard"} : Lookup("locate", T, locate(children, T))

RLocate == \E T \in LookupTypes \cup {"Keyboard"} : Lookup("rlocate", T, rlocate(children, T))

LocateById ==
    \E v \in (LookupIds \ {None}) \cup {"GoToPage"} :
        Lookup("locate_by_id", v, locate_by_id(children, v))

NextLookup == Locate \/ RLocate \/ LocateById

SpecLookup == InitLookup /\ [][NextLookup]_vars

\* the indices of the children a lookup matches
Matches(ch, op, arg) ==
    {i \in 0..(Len(ch) - 1) :
        IF op = "locate_by_id" THEN Child(ch, i).view_id = arg ELSE Child(ch, i).type = arg}

\* C3: locate returns the smallest index whose child has the type asked for,
\* rlocate the largest, locate_by_id the smallest index whose child carries the
\* view id asked for; each returns None exactly when no child matches, and none
\* of them changes the child sequence.
C3_LookupCorrect ==
    lk_result.op # "none" =>
        LET M == Matches(children, lk_result.op, lk_result.arg)
            res == lk_result.res
        IN /\ children = lk_result.before
           /\ (res = NoIndex) <=> (M = {})
           /\ M # {} =>
                 /\ res \in M
                 /\ lk_result.op \in {"locate", "locate_by_id"} => \A j \in M : res <= j
                 /\ lk_result.op = "rlocate" => \A j \in M : res >= j

\* rlocate has found the last of several matching children, not the first
C3_Witness ==
    /\ lk_result.op = "rlocate"
    /\ Cardinality(Matches(children, "rlocate", lk_result.arg)) >= 2
    /\ lk_result.res = Len(children) - 1
    /\ Child(children, 0).type = lk_result.arg

(***************************************************************************)
(* Properties of the overlay toggles.                                      *)
(***************************************************************************)
Types(ch) == [i \in 1..Len(ch) |-> ch[i].type]

Ids(ch) == {ch[i].id : i \in 1..Len(ch)}

ToggleSearchBar == Ev("Toggle", "SearchBar")

CloseSearchBar == Ev("Close", "SearchBar")

FocusSearchInput == Ev("Focus", "SiteTextSearchInput")

\* Home after Toggle(SearchBar), the Focus event that sent, and then closing
OpenFocusClose(closing) ==
    LET s1 == home_handle_event(Cur, ToggleSearchBar)
        s2 == home_handle_event(s1, s1.sent[1])
    IN home_handle_event(s2, closing)

\* C1: in Home, from a state with no SearchBar and no Keyboard child, handling
\* Toggle(SearchBar), the Focus event it emitted and then Close(SearchBar) or a
\* second Toggle(SearchBar) restores the child vector: same length, same child
\* types at the same indices, same rectangle of the anchor child at shelf_index.
\* It is stated of every reachable closed state, hence of every repetition.
C1_OpenCloseRestores ==
    (/\ container = "Home" /\ ~aborted
     /\ ~Has(children, "SearchBar") /\ ~Has(children, "Keyboard")
     /\ home_handle_event(Cur, ToggleSearchBar).sent # <<>>)
    => \A closing \in {CloseSearchBar, ToggleSearchBar} :
          LET s3 == OpenFocusClose(closing)
          IN /\ ~s3.aborted
             /\ Len(s3.children) = Len(children)
             /\ Types(s3.children) = Types(children)
             /\ Child(s3.children, shelf_index).rect = Child(children, shelf_index).rect

\* a forced toggle that finds the overlay in the state asked for changes nothing
NoOp(s) == s = Cur

Forced(b) == IF b THEN "Some(true)" ELSE "Some(false)"

C2_HomeSearchBar ==
    container = "Home" =>
        \A update \in BOOLEAN :
            NoOp(home_toggle_search_bar(Cur, Forced(Has(children, "SearchBar")), update))

C2_HomeKeyboard ==
    container = "Home" =>
        \A update \in BOOLEAN :
            NoOp(home_toggle_keyboard(Cur, Has(children, "Keyboard"), update, None))

C2_WorksKeyboard ==
    container = "Works" =>
        \A update \in BOOLEAN :
            NoOp(works_toggle_keyboard(Cur, Has(children, "Keyboard"), update, None))

C2_Menus ==
    /\ NoOp(toggle_main_menu(Cur, IconRect("MainMenu"), Forced(HasId(children, "MainMenu"))))
    /\ NoOp(toggle_battery_menu(Cur, IconRect("BatteryMenu"),
                                Forced(HasId(children, "BatteryMenu"))))
    /\ NoOp(toggle_clock_menu(Cur, IconRect("ClockMenu"), Forced(HasId(children, "ClockMenu"))))

\* C2: a force-open request when the overlay is present and a force-close
\* request when it is absent leave children, rectangles, focus and query as they
\* were, add nothing to the render queue and send nothing on the hub, for
\* Home::toggle_search_bar, toggle_keyboard of Home and of Works and the menu
\* toggles of common.rs.
C2_ForcedToggleIdempotent ==
    ~aborted /\ container \in {"Home", "Works"} =>
        C2_HomeSearchBar /\ C2_HomeKeyboard /\ C2_WorksKeyboard /\ C2_Menus

\* the event handled last was e, handled by Home
HomeHandled(e) == container = "Home" /\ last.evt = e

\* positions (1-based) of the children that the handler run of last inserted
Inserted == {i \in 1..Len(children) : children[i].id \notin Ids(last.pre.children)}

\* positions (1-based) in the earlier child vector of the children it removed
Removed == {i \in 1..Len(last.pre.children) : last.pre.children[i].id \notin Ids(children)}

InsertedOfType(T) == {i \in Inserted : children[i].type = T}

\* the children that were there before, in their present order
Kept == SelectSeq(children, LAMBDA c : c.id \in Ids(last.pre.children))

\* what the handler run of last left in the channel ahead of its own events
Rest == IF last.src = "hub" THEN Tail(last.pre.hub) ELSE last.pre.hub

\* what the handler run of last has sent
SentBy == SubSeq(hub, Len(Rest) + 1, Len(hub))

\* C4: in Home, with no Keyboard child and focus None, handling
\* Focus(Some(SiteTextSearchInput)) sets the focus and inserts exactly one
\* Keyboard with its separator and, only if no SearchBar was present, exactly
\* one SearchBar with its separator, and nothing else; handling the same Focus
\* event when the focus is already there changes no child and no rectangle and
\* writes nothing to the render queue or the hub.
C4_FocusCascade ==
    HomeHandled(FocusSearchInput) =>
        /\ (~Has(last.pre.children, "Keyboard") /\ last.pre.focus = None) =>
              /\ ~aborted
              /\ focus = "SiteTextSearchInput"
              /\ Cardinality(InsertedOfType("Keyboard")) = 1
              /\ Count(children, "Keyboard") = 1
              /\ \A i \in InsertedOfType("Keyboard") \cup InsertedOfType("SearchBar") :
                    i - 1 \in InsertedOfType("Filler")
              /\ Cardinality(InsertedOfType("SearchBar")) =
                    (IF Has(last.pre.children, "SearchBar") THEN 0 ELSE 1)
              /\ Cardinality(Inserted) = 2 * Cardinality(InsertedOfType("Keyboard")
                                                          \cup InsertedOfType("SearchBar"))
              /\ Kept = last.pre.children
        /\ last.pre.focus = "SiteTextSearchInput" =>
              /\ ~aborted
              /\ children = last.pre.children /\ rect = last.pre.rect
              /\ focus = last.pre.focus /\ query = last.pre.query
              /\ rq = <<>> /\ hub = Rest

\* Focus(Some(SiteTextSearchInput)) has opened the keyboard and the search bar
C4_Witness ==
    /\ HomeHandled(FocusSearchInput) /\ ~aborted
    /\ ~Has(last.pre.children, "Keyboard") /\ last.pre.focus = None
    /\ Has(children, "Keyboard") /\ Has(children, "SearchBar")
    /\ focus = "SiteTextSearchInput"

\* C5: in Home, Toggle(SearchBar) handled when no SearchBar child exists
\* inserts exactly two children, a separator at shelf_index+1 and the SearchBar
\* at shelf_index+2, and lowers the max.y of the anchor child's rectangle by the
\* scaled SMALL_BAR_HEIGHT.
C5_OpenInsertsPair ==
    (HomeHandled(ToggleSearchBar) /\ ~Has(last.pre.children, "SearchBar")) =>
        /\ ~aborted
        /\ Len(children) = Len(last.pre.children) + 2
        /\ Inserted = {shelf_index + 2, shelf_index + 3}
        /\ Child(children, shelf_index + 1).type = "Filler"
        /\ Child(children, shelf_index + 2).type = "SearchBar"
        /\ Child(children, shelf_index).rect.max.y =
              Child(last.pre.children, shelf_index).rect.max.y - small_height

\* how far open_search_bar lowers the bottom edge of the anchor
OpenShrinks ==
    Child(children, shelf_index).rect.max.y
        - Child(open_search_bar(Cur).children, shelf_index).rect.max.y

\* how many children open_search_bar inserts
OpenInserts == Len(open_search_bar(Cur).children) - Len(children)

ClosedSearchBar ==
    /\ container = "Home" /\ last.evt \in {ToggleSearchBar, CloseSearchBar}
    /\ Has(last.pre.children, "SearchBar")

\* C6: the close branch of Home::toggle_search_bar removes exactly two
\* children, the SearchBar at its index i and the separator at i-1, raises the
\* anchor's max.y by exactly the height that the open took from it, sets query
\* to None and queues a Gui-mode refresh for the anchor child.
C6_CloseRemovesPair ==
    ClosedSearchBar =>
        LET i == rlocate(last.pre.children, "SearchBar") IN
        /\ ~aborted
        /\ Removed = {i, i + 1}
        /\ Child(children, shelf_index).rect.max.y
              - Child(last.pre.children, shelf_index).rect.max.y = OpenShrinks
        /\ query = None
        /\ \E k \in 1..Len(rq) :
              rq[k].id = Child(children, shelf_index).id /\ rq[k].mode = "Gui"

toggle_keyboard(s, enable, update, vid) ==
    IF container = "Home" THEN home_toggle_keyboard(s, enable, update, vid)
    ELSE works_toggle_keyboard(s, enable, update, vid)

IdSeq(ch) == [i \in 1..Len(ch) |-> ch[i].id]

\* C7: in Home and in Works, toggle_keyboard(true) followed by
\* toggle_keyboard(false) leaves the child vector as it was before the open
\* (same length, same views at the same indices): the close removes exactly
\* the children the open inserted and no other child.
C7_KeyboardPairedRemoval ==
    (~aborted /\ container \in {"Home", "Works"} /\ ~Has(children, "Keyboard")) =>
        \A update \in BOOLEAN :
            LET opened == toggle_keyboard(Cur, TRUE, update, None)
                closed == toggle_keyboard(opened, FALSE, update, None)
            IN ~opened.aborted =>
                  /\ ~closed.aborted
                  /\ IdSeq(closed.children) = IdSeq(children)

IsPrefix(a, b) == Len(a) <= Len(b) /\ SubSeq(b, 1, Len(a)) = a

TopBarIndex == IF container = "Home" THEN 1 ELSE 0

KeyboardRemoved ==
    \E i \in Removed : last.pre.children[i].type = "Keyboard"

\* C8: an event sent on the hub while the container handles an event is not
\* handled inside that handler: it is appended to the channel behind the events
\* already waiting, in the order sent, and the channel is consumed from its
\* head.  Reseed leaves ClockTick before BatteryTick; after a handler that
\* closed the keyboard the Focus(None) it sent is waiting and the focus is
\* still what it was; after Toggle(SearchBar) opened the search bar the
\* Focus(Some(SiteTextSearchInput)) it sent is waiting and the focus unchanged.
C8_HubDeferredOrdered ==
    (last.src # "none" /\ ~aborted) =>
        /\ last.src = "hub" => last.pre.hub # <<>> /\ last.evt = Head(last.pre.hub)
        /\ IsPrefix(Rest, hub)
        /\ (last.evt.type = "Reseed" /\ Child(children, TopBarIndex).type = "TopBar") =>
              SentBy = <<Ev("ClockTick", None), Ev("BatteryTick", None)>>
        /\ KeyboardRemoved =>
              /\ focus = last.pre.focus
              /\ SentBy # <<>> /\ SentBy[1] = Ev("Focus", None)
        /\ (HomeHandled(ToggleSearchBar) /\ ~Has(last.pre.children, "SearchBar")
              /\ last.pre.query = None) =>
              /\ focus = last.pre.focus
              /\ SentBy = <<FocusSearchInput>>

\* Close(SearchBar) has closed the keyboard while other events were waiting:
\* its Focus(None) is behind them and the focus is still on the input
C8_Witness ==
    /\ HomeHandled(CloseSearchBar) /\ ~aborted /\ KeyboardRemoved
    /\ Rest # <<>>
    /\ hub = Rest \o <<Ev("Focus", None)>>
    /\ focus = "SiteTextSearchInput"

UnionRect(S) ==
    LET r == CHOOSE r \in S : TRUE
    IN Rect(CHOOSE x \in {q.min.x : q \in S} : \A q \in S : x <= q.min.x,
            CHOOSE y \in {q.min.y : q \in S} : \A q \in S : y <= q.min.y,
            CHOOSE x \in {q.max.x : q \in S} : \A q \in S : x >= q.max.x,
            CHOOSE y \in {q.max.y : q \in S} : \A q \in S : y >= q.max.y)

\* C9: when Home::toggle_search_bar opens the overlay with update = true, the
\* render queue receives a Partial request of the anchor child for the part of
\* the anchor above the first overlay sibling, and a request whose rectangle
\* is the union of the rectangles of the children this open inserted.
C9_OpenRenderRequests ==
    (HomeHandled(ToggleSearchBar) /\ ~Has(last.pre.children, "SearchBar") /\ ~aborted) =>
        LET anchor == Child(children, shelf_index)
            first == Child(children, shelf_index + 1)
            visible == Rect(anchor.rect.min.x, anchor.rect.min.y, anchor.rect.max.x,
                            Min(anchor.rect.max.y, first.rect.min.y))
        IN /\ \E k \in 1..Len(rq) : rq[k] = RenderData(anchor.id, visible, "Partial")
           /\ \E k \in 1..Len(rq) : rq[k].rect = UnionRect({children[i].rect : i \in Inserted})

\* C10: when Home closes an open search bar on Toggle(SearchBar) or
\* Close(SearchBar), the child vector is as long as before the open and exactly
\* one expose request (a request with no owning view) is added to the render
\* queue, whose rectangle covers the band of the removed overlay children.
C10_CloseRenderRequests ==
    (ClosedSearchBar /\ ~aborted) =>
        LET exposes == {k \in 1..Len(rq) : rq[k].id = NoOwner} IN
        /\ Len(children) = Len(last.pre.children) - OpenInserts
        /\ Cardinality(exposes) = 1
        /\ \A k \in exposes :
              Contains(rq[k].rect, UnionRect({last.pre.children[i].rect : i \in Removed}))

(***************************************************************************)
(* Keyboard dismissal and opening, submission.                             *)
(***************************************************************************)
\* the rectangles of the Keyboard children of ch and of the separators that
\* sit on their top edge
KeyboardBand(ch) ==
    {ch[i].rect : i \in {j \in 1..Len(ch) :
        \/ ch[j].type = "Keyboard"
        \/ /\ ch[j].type = "Filler"
           /\ \E k \in 1..Len(ch) : /\ ch[k].type = "Keyboard"
                                    /\ ch[j].rect.max.y = ch[k].rect.min.y
                                    /\ ch[j].rect.min.y = ch[k].rect.min.y - thickness}}

\* C11: whenever the handling of an event has dismissed a Keyboard (a Keyboard
\* child was there before and toggle_keyboard(false) removed it), the render
\* queue holds an expose request (one with no owning view) whose rectangle
\* covers the band the keyboard and its separator occupied, and
\* context.kb_rect is the empty rectangle.
C11_KeyboardDismissal ==
    (~aborted /\ KeyboardRemoved) =>
        /\ kb_rect = DefaultRect
        /\ \E k \in 1..Len(rq) :
              /\ rq[k].id = NoOwner
              /\ Contains(rq[k].rect, UnionRect(KeyboardBand(last.pre.children)))

\* Home with search bar and keyboard, after toggle_keyboard(false, ..) has
\* dismissed the keyboard: the state between the two calls of the Submit arm
SearchOnly(update) == home_toggle_keyboard(Cur, FALSE, update, None)

\* C12: in Home, toggle_keyboard(true, ..) applied where a SearchBar child is
\* present and no Keyboard child is present inserts exactly two children, a
\* separator and a Keyboard, no second SearchBar and no search separator, and
\* leaves the rectangle of the anchor child at shelf_index as it was.
C12_ReopenKeyboardOnly ==
    (container = "Home" /\ ~aborted /\ Has(children, "SearchBar") /\ Has(children, "Keyboard")) =>
        \A update \in BOOLEAN :
            LET so == SearchOnly(update)
                opened == home_toggle_keyboard(so, TRUE, update, None)
            IN (~so.aborted /\ Has(so.children, "SearchBar") /\ ~Has(so.children, "Keyboard")) =>
                  /\ ~opened.aborted
                  /\ Len(opened.children) = Len(so.children) + 2
                  /\ Count(opened.children, "Keyboard") = 1
                  /\ Count(opened.children, "SearchBar") = 1
                  /\ Count(opened.children, "Filler") = Count(so.children, "Filler") + 1
                  /\ Child(opened.children, shelf_index).rect = Child(so.children, shelf_index).rect

SubmitSearch(text) == Event("Submit", "SiteTextSearchInput", text, DefaultRect)

\* the separators created after the container had been constructed
OverlaySeparators(ch) == {i \in 1..Len(ch) : ch[i].type = "Filler" /\ ch[i].id >= first_id}

\* C13: after Home has handled Submit(SiteTextSearchInput, text), in whatever
\* reachable state, its children hold no SearchBar, no Keyboard and none of
\* their separators, the render queue holds exactly one Gui request for Home's
\* whole rectangle, and LoadSearch(text) has been sent on the hub exactly once.
C13_SubmitTeardown ==
    \A text \in Texts :
        HomeHandled(SubmitSearch(text)) =>
            /\ ~aborted
            /\ ~Has(children, "SearchBar") /\ ~Has(children, "Keyboard")
            /\ OverlaySeparators(children) = {}
            /\ Cardinality({k \in 1..Len(rq) : rq[k] = RenderData(id, rect, "Gui")}) = 1
            /\ Cardinality({k \in 1..Len(SentBy) :
                   SentBy[k] = Event("LoadSearch", None, text, DefaultRect)}) = 1

(***************************************************************************)
(* Home through two openings of the overlay: the same handlers, started    *)
(* from one Home and followed until the Id feeder has handed out           *)
(* MaxReopen Ids.                                                          *)
(***************************************************************************)
MaxReopen == 8

InitReopen ==
    /\ container = "Home"
    /\ LET h == home_new(HomeRect, TRUE, 1)
       IN /\ rect = h.rect /\ id = h.id /\ children = h.children
          /\ shelf_index = h.shelf_index /\ next_id = h.next_id /\ rq = h.rq
    /\ pages_count = 0 /\ current_page = 0
    /\ focus = None /\ query = None
    /\ hub = <<>> /\ kb_rect = DefaultRect /\ aborted = FALSE
    /\ last = NoLast
    /\ first_id = next_id
    /\ lk_result = NoLookup /\ rv = NoRotationValues /\ client = NoClient

InputReopen ==
    /\ ~aborted
    /\ Len(hub) < MaxHub
    /\ next_id - first_id <= MaxReopen
    /\ \E e \in HomeEvents : Handle(e, "input", hub)

DeliverReopen ==
    /\ ~aborted
    /\ hub # <<>>
    /\ next_id - first_id <= MaxReopen
    /\ Handle(Head(hub), "hub", Tail(hub))

NextReopen == InputReopen \/ DeliverReopen

SpecReopen == InitReopen /\ [][NextReopen]_vars

\* the last event was a search submission whose text is not a valid query
InvalidSubmit ==
    \/ HomeHandled(SubmitSearch(""))
    \/ /\ container = "Works"
       /\ \E txt \in InvalidQueries : last.evt = Event("Submit", "HomeSearchInput", txt, DefaultRect)

\* C14: when a submitted search text yields no valid query (Works:
\* Submit(HomeSearchInput, text) with BookQuery::new(text) = None; Home:
\* Submit(SiteTextSearchInput, "")), the container pushes exactly one
\* Notification child and nothing else, keeps every child it had (so the
\* search/keyboard overlay stays as it was) and sends no LoadSearch event.
C14_InvalidSearchNotified ==
    InvalidSubmit =>
        /\ ~aborted
        /\ Cardinality(Inserted) = 1
        /\ \A i \in Inserted : i = Len(children) /\ children[i].type = "Notification"
        /\ Kept = last.pre.children
        /\ \A k \in 1..Len(SentBy) : SentBy[k].type # "LoadSearch"

\* the same, of Works alone
C14_WorksOnly == container = "Works" => C14_InvalidSearchNotified

(***************************************************************************)
(* Works::resize.                                                          *)
(***************************************************************************)
WorksResized == container = "Works" /\ last.evt.type = "Resize"

\* C15: Works::resize(rect), applied in any reachable state of Works, completes
\* without abort, removes every Menu child and no other child, leaves the
\* SearchBar and Keyboard children in place, sets the container's rectangle to
\* rect and adds a Full request for the container with rect as the last entry
\* of the render queue.
C15_ResizeCompletes ==
    WorksResized =>
        /\ ~aborted
        /\ ~Has(children, "Menu")
        /\ IdSeq(children) = IdSeq(SelectSeq(last.pre.children, LAMBDA c : c.type # "Menu"))
        /\ Count(children, "SearchBar") = Count(last.pre.children, "SearchBar")
        /\ Count(children, "Keyboard") = Count(last.pre.children, "Keyboard")
        /\ rect = last.evt.rect
        /\ rq # <<>> /\ rq[Len(rq)] = RenderData(id, last.evt.rect, "Full")

\* the children that make up the vertical bands of Works: the bars, the
\* anchor, the overlay views and the separators
Bands(ch) ==
    SelectSeq(ch, LAMBDA c : c.type \in {"TopBar", "WorkIndex", "Filler", "SearchBar",
                                         "Keyboard", "BottomBar"})

RECURSIVE SumHeights(_)
SumHeights(b) == IF b = <<>> THEN 0 ELSE Height(Head(b).rect) + SumHeights(Tail(b))

\* the bands do not overlap and tile r from top to bottom
Tiles(b, r) ==
    /\ b # <<>>
    /\ \A i, j \in 1..Len(b) :
          i # j => (b[i].rect.max.y <= b[j].rect.min.y \/ b[j].rect.max.y <= b[i].rect.min.y)
    /\ SumHeights(b) = Height(r)
    /\ \E i \in 1..Len(b) : b[i].rect.min.y = r.min.y
    /\ \E i \in 1..Len(b) : b[i].rect.max.y = r.max.y

\* C16: Works::resize(rect) on a Works whose overlay is open (the keyboard,
\* and the search bar above it) completes, and afterwards the bands of top
\* bar, anchor, search bar, keyboard and bottom bar, each with its separator,
\* do not overlap pairwise and tile rect: their heights sum to rect.height(),
\* the first starts at rect.min.y and the last ends at rect.max.y.
C16_ResizeTiles ==
    (container = "Works" /\ ~aborted /\ Has(children, "Keyboard")) =>
        \A r \in ResizeRects :
            LET resized == works_resize(works_toggle_search_bar(Cur, "Some(true)", FALSE), r)
            IN /\ ~resized.aborted
               /\ Has(resized.children, "Keyboard")
               /\ Tiles(Bands(resized.children), r)

(***************************************************************************)
(* Positional indices, absent children and the overlay in Works.           *)
(***************************************************************************)
\* C17: when toggle_keyboard(false, ..), in Home or in Works, reads the child
\* at index-1 of the Keyboard it located and that child is not the separator
\* the code assumes there, the handler aborts: it does not go on to drain the
\* mistyped sibling or to write render requests.
C17_MistypedSiblingAborts ==
    (container \in {"Home", "Works"} /\ ~aborted /\ Has(children, "Keyboard")) =>
        LET index == rlocate(children, "Keyboard") IN
        (index < 1 \/ Child(children, index - 1).type # "Filler") =>
            \A update \in BOOLEAN : toggle_keyboard(Cur, FALSE, update, None).aborted

\* C18: in every reachable state of Home and Works a lookup that returns None
\* is an ordinary branch and aborts nothing: with no BottomBar among the
\* children, Home::open_search_bar (which looks up the BottomBar and then the
\* Keyboard it has inserted) and Works::resize (which looks up the BottomBar)
\* complete without abort.
C18_AbsenceIsControlFlow ==
    (~aborted /\ rlocate(children, "BottomBar") = NoIndex) =>
        /\ container = "Home" => ~open_search_bar(Cur).aborted
        /\ container = "Works" => \A r \in ResizeRects : ~works_resize(Cur, r).aborted

\* the ids of the text inputs of Works that take the focus
WorksInputs == {"GoToPageInput", "HomeSearchInput"}

\* C19: in every reachable state of Works, a freshly constructed one included,
\* handling Focus(Some(v)) when the focus is not v and no Keyboard child
\* exists completes without abort, sets the focus to v and adds exactly two
\* children, one Keyboard and one separator.
C19_WorksFocusCascade ==
    (container = "Works" /\ ~aborted /\ ~Has(children, "Keyboard")) =>
        \A v \in WorksInputs \ {focus} :
            LET s1 == works_handle_event(Cur, Ev("Focus", v))
            IN /\ ~s1.aborted
               /\ s1.focus = v
               /\ Len(s1.children) = Len(children) + 2
               /\ Count(s1.children, "Keyboard") = 1
               /\ Count(s1.children, "Filler") = Count(children, "Filler") + 1

\* C20: in Works, handling Toggle(SearchBar) when no SearchBar child exists
\* inserts a separator at shelf_index+1 and a SearchBar at shelf_index+2, and
\* handling Toggle(SearchBar) or Close(SearchBar) when a SearchBar exists
\* removes the two again.
C20_WorksSearchBar ==
    (container = "Works" /\ ~aborted) =>
        /\ ~Has(children, "SearchBar") =>
              LET s1 == works_handle_event(Cur, ToggleSearchBar)
              IN /\ ~s1.aborted
                 /\ Len(s1.children) = Len(children) + 2
                 /\ Child(s1.children, shelf_index + 1).type = "Filler"
                 /\ Child(s1.children, shelf_index + 2).type = "SearchBar"
        /\ Has(children, "SearchBar") =>
              \A e \in {ToggleSearchBar, CloseSearchBar} :
                  LET s1 == works_handle_event(Cur, e)
                  IN /\ ~s1.aborted
                     /\ Len(s1.children) = Len(children) - 2
                     /\ ~Has(s1.children, "SearchBar")

(***************************************************************************)
(* Layout of Home.                                                         *)
(***************************************************************************)
\* C21: after any sequence of Toggle(SearchBar), Close(SearchBar), Focus and
\* Submit events the rectangle of every child of Home, the anchor at
\* shelf_index included, is contained in Home's own rectangle.
C21_ChildrenContained ==
    (container = "Home" /\ ~aborted) =>
        \A i \in 1..Len(children) : Contains(rect, children[i].rect)

(***************************************************************************)
(* Home through many openings and closings of the search bar: one Home,    *)
(* the events of the search overlay only, followed until the Id feeder has *)
(* handed out MaxCycleIds Ids.                                             *)
(***************************************************************************)
MaxCycleIds == 40

CycleEvents == {ToggleSearchBar, CloseSearchBar, FocusSearchInput, SubmitSearch("fic")}

InputCycle ==
    /\ ~aborted
    /\ hub = <<>>
    /\ next_id - first_id <= MaxCycleIds
    /\ \E e \in CycleEvents : Handle(e, "input", hub)

DeliverCycle ==
    /\ ~aborted
    /\ hub # <<>>
    /\ Handle(Head(hub), "hub", Tail(hub))

NextCycle == InputCycle \/ DeliverCycle

SpecCycle == InitReopen /\ [][NextCycle]_vars

(* Construction of Home. *)
\* the Fave children of a Home built with and without a logged-in user
FaveTypes(logged_in, k) == [i \in 1..((IF logged_in THEN 1 ELSE 0) + k) |-> "Fave"]

\* the order of the children, the anchor and the render queue of a new Home
HomeNewOrder(h, logged_in, nfaves) ==
    /\ \E k \in 0..nfaves :
          Types(h.children) = <<"Filler", "TopBar">> \o FaveTypes(logged_in, k)
                                  \o <<"Filler", "BottomBar">>
    /\ h.children[1].rect = h.rect
    /\ h.shelf_index = Len(h.children) - 3
    /\ h.rq = <<RenderData(h.id, h.rect, "Full")>>

\* C22: Home::new builds its children in a fixed order: the background Filler at
\* index 0, the TopBar at index 1, the 'Marked For Later' Fave exactly when
\* logged_in, then the favourite Faves, the separator Filler and the BottomBar
\* last; shelf_index is the index of the last child created before the bottom
\* separator and exactly one Full request for Home's rectangle is queued.
C22_HomeNewOrder ==
    (container = "Home" /\ last = NoLast) =>
        /\ \A logged_in \in BOOLEAN, nfaves \in 0..MaxFaves :
              HomeNewOrder(home_new(HomeRect, logged_in, nfaves), logged_in, nfaves)
        /\ \E logged_in \in BOOLEAN, nfaves \in 0..MaxFaves :
              HomeNewOrder([children |-> children, rect |-> rect, id |-> id,
                            shelf_index |-> shelf_index, rq |-> rq], logged_in, nfaves)

C22_LoggedInWithFave ==
    /\ container = "Home" /\ last = NoLast
    /\ Types(children) = <<"Filler", "TopBar", "Fave", "Fave", "Filler", "BottomBar">>
    /\ shelf_index = 3
    /\ rq = <<RenderData(id, rect, "Full")>>

\* the rows of nfaves favourites below the top bar (and the 'Marked For Later'
\* row) end above the separator of the bottom bar
RowsFit(r, logged_in, nfaves) ==
    Height(TopBarRect(r)) + ((IF logged_in THEN 1 ELSE 0) + nfaves) * FaveHeight
        <= r.max.y - small_height - small_thickness

\* C23: a Home built with N favourite entries whose rows all fit above the
\* bottom bar has one Fave child per entry, in list order, after the optional
\* 'Marked For Later' Fave, and rlocate::<Fave> returns 1 + (1 if logged_in) + N.
C23_AllFavesCreated ==
    (container = "Home" /\ last = NoLast) =>
        \A logged_in \in BOOLEAN, nfaves \in 1..MaxFaves :
            RowsFit(HomeRect, logged_in, nfaves) =>
                LET h == home_new(HomeRect, logged_in, nfaves)
                    marked == IF logged_in THEN 1 ELSE 0
                IN /\ Count(h.children, "Fave") = marked + nfaves
                   /\ rlocate(h.children, "Fave") = 1 + marked + nfaves

(* Giving up the focus. *)
FocusNone == Ev("Focus", None)

\* C24: handling Focus(None) in Home or Works only sets focus to None: no child
\* is removed or inserted, no rectangle changes, the query is unchanged and
\* nothing is added to the render queue or sent on the hub, also while the
\* keyboard and the search bar are open.
C24_FocusNoneOnlyFocus ==
    /\ (~aborted /\ container \in {"Home", "Works"}) =>
          handle_event(Cur, FocusNone) = [Cur EXCEPT !.focus = None, !.handled = TRUE]
    /\ last.evt = FocusNone =>
          /\ ~aborted /\ last.handled
          /\ focus = None
          /\ children = last.pre.children /\ rect = last.pre.rect
          /\ query = last.pre.query /\ kb_rect = last.pre.kb_rect
          /\ rq = <<>> /\ hub = Rest

\* Focus(None) has been handled by Home with the keyboard and the search bar open
C24_FocusNoneWhileOpen ==
    /\ HomeHandled(FocusNone) /\ ~aborted
    /\ last.pre.focus # None /\ focus = None
    /\ Has(children, "Keyboard") /\ Has(children, "SearchBar")

(* The menus of the top bar. *)
MaxMenuIds == 5

MenuIds == {"MainMenu", "BatteryMenu", "ClockMenu"}

ToggleNearMenu(v) == Event("ToggleNear", v, "", IconRect(v))

MenuEvents ==
    {ToggleNearMenu(v) : v \in MenuIds}
        \cup {Ev("Close", "MainMenu"), Ev("Toggle", "SearchBar"), Ev("Show", "Keyboard")}

InputMenus ==
    /\ ~aborted
    /\ Len(hub) < MaxHub
    /\ next_id - first_id <= MaxMenuIds
    /\ \E e \in MenuEvents : Handle(e, "input", hub)

DeliverMenus ==
    /\ ~aborted
    /\ hub # <<>>
    /\ Handle(Head(hub), "hub", Tail(hub))

NextMenus == InputMenus \/ DeliverMenus

SpecMenus == Init /\ [][NextMenus]_vars

\* the positions (1-based) of the children of ch with ViewId v
WithId(ch, v) == {i \in 1..Len(ch) : ch[i].view_id = v}

\* the menu v was absent: it is the new last child, with one Gui request for it
MenuOpened(v) ==
    /\ Len(children) = Len(last.pre.children) + 1
    /\ SubSeq(children, 1, Len(children) - 1) = last.pre.children
    /\ LET menu == children[Len(children)]
       IN /\ menu.type = "Menu" /\ menu.view_id = v
          /\ menu.id \notin Ids(last.pre.children)
          /\ rq = <<RenderData(menu.id, menu.rect, "Gui")>>

\* the menu v was present: that child is gone, with one expose request for it
MenuClosed(v) ==
    \E i \in WithId(last.pre.children, v) :
        /\ children = Drain(last.pre.children, i - 1, i - 1)
        /\ rq = <<Expose(last.pre.children[i].rect, "Gui")>>

\* C25: each ToggleNear(MainMenu | BatteryMenu | ClockMenu, rect) handled by
\* Home or Works flips the menu: when it is absent one Menu with that ViewId is
\* appended as the last child and one Gui request with the menu's id and
\* rectangle is queued; when it is present exactly that child is removed and
\* one expose request in Gui mode with its rectangle is queued; no other child
\* and no rectangle changes.
C25_MenuToggleFlips ==
    \A v \in MenuIds :
        last.evt = ToggleNearMenu(v) =>
            /\ ~aborted /\ last.handled
            /\ IF HasId(last.pre.children, v) THEN MenuClosed(v) ELSE MenuOpened(v)
            /\ Cardinality(WithId(children, v)) =
                  (IF HasId(last.pre.children, v) THEN 0 ELSE 1)
            /\ rect = last.pre.rect /\ focus = last.pre.focus /\ query = last.pre.query
            /\ hub = Rest

\* the battery menu has been closed while a menu opened after it was the last child
C25_MenuClosedAmongOthers ==
    /\ last.evt = ToggleNearMenu("BatteryMenu") /\ ~aborted
    /\ HasId(last.pre.children, "BatteryMenu") /\ ~HasId(children, "BatteryMenu")
    /\ HasId(children, "ClockMenu")
    /\ last.pre.children[Len(last.pre.children)].view_id = "ClockMenu"

(* What opening the search bar sends. *)
\* C26: the open branch of Home::toggle_search_bar sends
\* Focus(Some(SiteTextSearchInput)) exactly once when the query is None and no
\* Focus when the query is Some; the open sends nothing else.
C26_OpenSendsFocusOnce ==
    /\ (container = "Home" /\ ~aborted /\ ~Has(children, "SearchBar")) =>
          \A enable \in {"None", "Some(true)"}, update \in BOOLEAN :
              LET s1 == home_toggle_search_bar(Cur, enable, update)
              IN /\ ~s1.aborted
                 /\ Has(s1.children, "SearchBar")
                 /\ s1.sent = (IF query = None THEN <<FocusSearchInput>> ELSE <<>>)
    /\ (HomeHandled(ToggleSearchBar) /\ ~Has(last.pre.children, "SearchBar")) =>
          /\ ~aborted
          /\ SentBy = (IF last.pre.query = None THEN <<FocusSearchInput>> ELSE <<>>)

\* Toggle(SearchBar) has opened the search bar of a Home that kept a query
C26_OpenedWithQuery ==
    /\ HomeHandled(ToggleSearchBar) /\ ~aborted
    /\ ~Has(last.pre.children, "SearchBar") /\ Has(children, "SearchBar")
    /\ last.pre.query # None
    /\ SentBy = <<>>

(* The search overlay as one modal. *)
\* C27: search is a single modal in Home: after every completely handled
\* event, whatever the interleaving of user events with the follow-up events
\* of the hub, a Keyboard child is present exactly when a SearchBar child is.
C27_SingleModal ==
    (container = "Home" /\ ~aborted) =>
        (Has(children, "Keyboard") <=> Has(children, "SearchBar"))

(* Rendering what the focus path inserts. *)
\* the rectangles of the requests in the render queue
Requested == {rq[k].rect : k \in 1..Len(rq)}

\* every row of r lies in a requested rectangle that spans r from left to right
Covered(r) ==
    \A y \in r.min.y..(r.max.y - 1) :
        \E q \in Requested : /\ q.min.x <= r.min.x /\ r.max.x <= q.max.x
                             /\ q.min.y <= y /\ y < q.max.y

\* the events that reach toggle_keyboard(true, update = true, ..)
KeyboardOpening ==
    \/ last.evt.type = "Focus" /\ last.evt.view # None
    \/ container = "Works" /\ last.evt = Ev("Show", "Keyboard")

\* C28: when toggle_keyboard(true, update = true) inserts a Keyboard (on
\* Focus(Some(v)) in Home or Works, on Show(Keyboard) in Works), the requests
\* added to the render queue cover, taken together, the rectangle of every
\* child inserted by the call, the Keyboard and its separator among them.
C28_FocusPathRendered ==
    (~aborted /\ KeyboardOpening /\ InsertedOfType("Keyboard") # {}) =>
        \A i \in Inserted : Covered(children[i].rect)

(* What handle_event reports. *)
\* the events Home and Works are handed in this model, and one neither matches
HandedEvents ==
    HomeEvents \cup WorksEvents \cup WorksSearchEvents \cup {Ev("Select", "Quit")}

\* C29: handle_event reports faithfully: whenever Home::handle_event or
\* Works::handle_event returns false it has changed no child, no field of the
\* container and no entry of the render queue and has sent no event on the hub;
\* every event whose handling mutates the container is reported as handled.
C29_UnhandledChangesNothing ==
    /\ (~aborted /\ container \in {"Home", "Works"}) =>
          \A e \in HandedEvents :
              LET s1 == handle_event(Cur, e)
              IN (~s1.aborted /\ ~s1.handled) => s1 = Cur
    /\ (last.src # "none" /\ ~aborted /\ ~last.handled) =>
          /\ children = last.pre.children /\ rect = last.pre.rect
          /\ focus = last.pre.focus /\ query = last.pre.query
          /\ kb_rect = last.pre.kb_rect /\ next_id = last.pre.next_id
          /\ rq = <<>> /\ hub = Rest

(* How many overlay children Home can hold. *)
\* C30: in every reachable state of Home, whatever the interleaving of input
\* events with the follow-up events of the hub, the children hold at most one
\* SearchBar and at most one Keyboard.
C30_AtMostOneOverlay ==
    (container = "Home" /\ ~aborted) =>
        /\ Count(children, "SearchBar") <= 1
        /\ Count(children, "Keyboard") <= 1

(* The anchor of Works. *)
\* C31: in every reachable state of Works the child at shelf_index exists and
\* is the WorkIndex: no handler removes it or moves another view into its
\* position, so the downcasts of refresh_visibles and update_shelf never abort.
C31_WorksAnchor ==
    (container = "Works" /\ ~aborted) =>
        /\ InRange(children, shelf_index)
        /\ Child(children, shelf_index).type = "WorkIndex"

(* Calls of the menu toggles. *)
MaxToggleIds == 3

AllMenuIds == MenuIds \cup {"InputHistoryMenu", "KeyboardLayoutMenu", "SortMenu"}

Enables == {"None", "Some(true)", "Some(false)"}

\* the toggle function of the menu v called on s
toggle_call(s, v, enable, has_history) ==
    CASE v = "MainMenu" -> toggle_main_menu(s, IconRect(v), enable)
      [] v = "BatteryMenu" -> toggle_battery_menu(s, IconRect(v), enable)
      [] v = "ClockMenu" -> toggle_clock_menu(s, IconRect(v), enable)
      [] v = "InputHistoryMenu" -> toggle_input_history_menu(s, IconRect(v), enable, has_history)
      [] v = "KeyboardLayoutMenu" -> toggle_keyboard_layout_menu(s, IconRect(v), enable)
      [] OTHER -> toggle_sort_menu(s, IconRect(v), enable)

\* a view calls one of the menu toggles on the container
MenuCall ==
    /\ ~aborted
    /\ next_id - first_id <= MaxToggleIds
    /\ \E v \in AllMenuIds, enable \in Enables, has_history \in BOOLEAN :
          /\ v = "SortMenu" => container = "Works"
          /\ v # "InputHistoryMenu" => has_history
          /\ Return(Handled(toggle_call(Cur, v, enable, has_history), TRUE),
                    Event("ToggleMenu", v, enable, IconRect(v)), "input", hub)

NextToggles == MenuCall

SpecToggles == Init /\ [][NextToggles]_vars

\* C32: after any sequence of calls of the menu toggles (toggle_main_menu,
\* toggle_battery_menu, toggle_clock_menu, toggle_input_history_menu,
\* toggle_keyboard_layout_menu, Works::toggle_sort_menu) with any enable
\* values, the children of the view hold at most one child for each menu ViewId.
C32_OneChildPerMenu ==
    \A v \in AllMenuIds : Cardinality(WithId(children, v)) <= 1

\* a forced open has found its menu among three open menus and left it alone
C32_ForcedOpenOnPresent ==
    /\ last.evt.type = "ToggleMenu" /\ last.evt.text = "Some(true)"
    /\ HasId(last.pre.children, last.evt.view)
    /\ children = last.pre.children
    /\ Cardinality({v \in AllMenuIds : HasId(children, v)}) = 3

(* Paging in Works. *)
MaxRng == 2

MaxPageIds == 3

Dirs == {"Next", "Previous"}

\* Submit(GoToPageInput, "_") with the number the random generator returns
RandomSubmit(rnd) ==
    [type |-> "Submit", view |-> "GoToPageInput", text |-> "_", rect |-> DefaultRect,
     rng |-> rnd]

\* the texts a GoToPageInput submits
PageTexts == {"(", ")", "0", "1", "2", "3", "x", ""}

PagingEvents ==
    {Ev("Page", d) : d \in Dirs} \cup {Ev("Chapter", d) : d \in Dirs}
        \cup {Ev("Arrow", d) : d \in {"West", "East", "North", "South"}}
        \cup {Ev("Button", b) : b \in {"Backward", "Forward"}}
        \cup {Event("GoTo", None, Numerals[n], DefaultRect) : n \in 1..(MaxPages + 2)}
        \cup {Event("Submit", "GoToPageInput", txt, DefaultRect) : txt \in PageTexts}
        \cup {RandomSubmit(rnd) : rnd \in 0..MaxRng}
        \cup {Ev("Select", v) : v \in {"Sort", "ReverseOrder", "ToggleShowHidden"}}
        \cup {Event("GoToTag", None, loc, DefaultRect) : loc \in TagLocations}
        \cup {Ev("Toggle", "GoToPage"), Ev("Close", "GoToPage")}

\* Works as built from an index that reports current_page < max_page
InitPages ==
    /\ container = "Works"
    /\ LET w == works_new(HomeRect)
       IN /\ rect = w.rect /\ id = w.id /\ children = w.children
          /\ shelf_index = w.shelf_index /\ next_id = w.next_id /\ rq = w.rq
    /\ pages_count \in 0..MaxPages
    /\ current_page \in 0..saturating_sub(pages_count, 1)
    /\ focus = None /\ query = None
    /\ hub = <<>> /\ kb_rect = DefaultRect /\ aborted = FALSE
    /\ last = NoLast
    /\ first_id = next_id
    /\ lk_result = NoLookup /\ rv = NoRotationValues /\ client = NoClient

InputPages ==
    /\ ~aborted
    /\ Len(hub) < MaxHub
    /\ next_id - first_id <= MaxPageIds
    /\ \E e \in PagingEvents : Handle(e, "input", hub)

DeliverPages ==
    /\ ~aborted
    /\ hub # <<>>
    /\ Handle(Head(hub), "hub", Tail(hub))

NextPages == InputPages \/ DeliverPages

SpecPages == InitPages /\ [][NextPages]_vars

\* C33: in Works, after every handled event (Page, Chapter, GoTo, Arrow
\* gestures, page-turn buttons, Submit(GoToPageInput), sort selection,
\* GoToTag), current_page < pages_count whenever pages_count > 0 and
\* current_page = 0 whenever pages_count = 0, provided the WorkIndex reports
\* current_page < max_page; go_to_page with an index >= pages_count and
\* go_to_neighbor at either end change neither current_page nor the render queue.
C33_PageBound ==
    (container = "Works" /\ ~aborted) =>
        /\ pages_count > 0 => current_page < pages_count
        /\ pages_count = 0 => current_page = 0
        /\ \A index \in pages_count..(pages_count + 2) : go_to_page(Cur, index) = Cur
        /\ current_page = 0 => go_to_neighbor(Cur, "Previous") = Cur
        /\ current_page = saturating_sub(pages_count, 1) => go_to_neighbor(Cur, "Next") = Cur

\* Page(Next) has brought Works to its last page and redrawn the shelf
C33_LastPageReached ==
    /\ container = "Works" /\ ~aborted
    /\ last.evt = Ev("Page", "Next")
    /\ pages_count = MaxPages /\ current_page = pages_count - 1
    /\ rq # <<>>

\* the page Submit(GoToPageInput, text) is to select in a Works showing page
\* cur of count pages; rnd is the random number drawn for "_"
SelectedPage(text, cur, count, rnd) ==
    CASE text = "(" -> 0
      [] text = ")" -> saturating_sub(count, 1)
      [] text = "_" -> IF count > 0 THEN rnd % count ELSE cur
      [] parse_usize(text) # ParseErr ->
            IF saturating_sub(parse_usize(text), 1) < count
            THEN saturating_sub(parse_usize(text), 1) ELSE cur
      [] OTHER -> cur

\* C34: Works handling Submit(GoToPageInput, text) never aborts and selects
\* pages as follows: a decimal text n selects page max(n, 1) - 1 if that is
\* below pages_count and otherwise leaves current_page unchanged; "(" selects
\* page 0; ")" selects page pages_count - 1; "_" selects some page in
\* [0, pages_count); any other text changes nothing. This holds for every
\* pages_count >= 0, 0 included.
C34_GoToPageInput ==
    (/\ container = "Works" /\ ~aborted
     /\ InRange(children, shelf_index) /\ Child(children, shelf_index).type = "WorkIndex") =>
        \A e \in {Event("Submit", "GoToPageInput", txt, DefaultRect) : txt \in PageTexts}
                    \cup {RandomSubmit(rnd) : rnd \in 0..MaxRng} :
            LET s1 == works_handle_event(Cur, e)
            IN /\ ~s1.aborted
               /\ s1.current_page =
                     SelectedPage(e.text, current_page, pages_count,
                                  IF e.text = "_" THEN e.rng ELSE 0)
               /\ s1.children = children /\ s1.pages_count = pages_count

\* the Event::GoToTag of a location
GoToTag(loc) == Event("GoToTag", None, loc, DefaultRect)

\* C35: handling GoToTag in Works replaces the anchor in place: the number of
\* children and the identity and order of all children other than the anchor
\* are unchanged, the newly built WorkIndex ends at index shelf_index with the
\* rectangle of the one it replaced, and pages_count and current_page (with
\* works_count and works_lines, which are set the same way) are set from the
\* new WorkIndex.
C35_GoToTagInPlace ==
    (container = "Works" /\ ~aborted) =>
        \A loc \in TagLocations :
            LET s1 == works_handle_event(Cur, GoToTag(loc))
            IN /\ ~s1.aborted
               /\ Len(s1.children) = Len(children)
               /\ \A i \in 1..Len(children) :
                     i # shelf_index + 1 => s1.children[i] = children[i]
               /\ Child(s1.children, shelf_index).type = "WorkIndex"
               /\ Child(s1.children, shelf_index).id \notin Ids(children)
               /\ Child(s1.children, shelf_index).rect = Child(children, shelf_index).rect
               /\ s1.pages_count = MaxPageOf(loc)
               /\ s1.current_page = CurrentPageOf(loc)

(* RotationValues: the view that finds the rotation value of the framebuffer. *)
CORNERS_COUNT == 4

PHASES_COUNT == 5

MaxTaps == 8

\* the values a rotation takes
Rotations == 0..3

\* Framebuffer::rect after the framebuffer reads back rotation rot
fb_rect(rot) == IF rot % 2 = 0 THEN HomeRect ELSE Rect(0, 0, 800, 600)

\* RotationValues::new with context.display.rotation and the rotation the
\* framebuffer reports
rotation_values_new(r, rotation, fb_rotation) ==
    [id |-> 1, rect |-> r, children |-> <<>>, next_id |-> 2,
     rq |-> <<RenderData(1, r, "Full")>>,
     v |-> [taps_count |-> 0, read_rotation |-> fb_rotation, written_rotation |-> rotation,
            display |-> rotation, fb |-> fb_rotation, set |-> <<>>, read |-> <<>>]]

finished_at_corners(taps_count) == taps_count >= CORNERS_COUNT

finished(taps_count) == taps_count >= 2 * CORNERS_COUNT

probe_next(taps_count) == taps_count - CORNERS_COUNT + 1

\* the rotation a tap of the second round probes
probe(taps_count) == taps_count - CORNERS_COUNT

\* the fields of the view and the framebuffer after a tap; rb is the rotation
\* the framebuffer reads back once set_rotation has returned
rotation_values_tap(v, rb) ==
    LET taps == v.taps_count + 1
        rotation == IF finished(taps) THEN v.written_rotation ELSE probe(taps)
    IN IF taps >= CORNERS_COUNT
       THEN [v EXCEPT !.taps_count = taps,
                      !.set = Append(@, rotation),
                      !.read = Append(@, rb),
                      !.fb = rb,
                      !.written_rotation = IF rb = v.read_rotation THEN rotation ELSE @]
       ELSE [v EXCEPT !.taps_count = taps]

\* RotationValues::handle_event on the container, v its fields before the event
rotation_values_handle_event(s, v, e, rb) ==
    IF e.type = "Tap"
    THEN LET taps == v.taps_count + 1
             s1 == IF taps >= CORNERS_COUNT
                   THEN [s EXCEPT !.children = <<>>, !.rect = fb_rect(rb)]
                   ELSE s
         IN Handled(IF finished(taps)
                    THEN Send(s1, Ev("Back", None))
                    ELSE AddRq(s1, RenderData(id, s1.rect, "Full")), TRUE)
    ELSE Handled(s, FALSE)

\* the phase number render shows
phase(taps_count) ==
    IF taps_count < CORNERS_COUNT THEN 1 ELSE 2 + taps_count - CORNERS_COUNT

InitRotation ==
    /\ container = "RotationValues"
    /\ \E rotation \in Rotations, fb_rotation \in Rotations :
          LET n == rotation_values_new(HomeRect, rotation, fb_rotation)
          IN /\ rect = n.rect /\ id = n.id /\ children = n.children
             /\ next_id = n.next_id /\ rq = n.rq /\ rv = n.v
    /\ shelf_index = 0 /\ pages_count = 0 /\ current_page = 0
    /\ focus = None /\ query = None
    /\ hub = <<>> /\ kb_rect = DefaultRect /\ aborted = FALSE
    /\ last = NoLast
    /\ first_id = next_id
    /\ lk_result = NoLookup /\ client = NoClient

\* the handler has returned s1 and left the fields v1
RotationReturn(s1, v1, e, src, rest) ==
    /\ children' = s1.children
    /\ rect' = s1.rect
    /\ rq' = s1.rq
    /\ hub' = rest \o s1.sent
    /\ rv' = v1
    /\ last' = [evt |-> e, src |-> src, handled |-> s1.handled, pre |-> Snapshot]
    /\ UNCHANGED <<container, id, shelf_index, focus, query, pages_count, current_page,
                   kb_rect, next_id, aborted, first_id, lk_result, client>>

\* a tap on the view
Tap ==
    /\ container = "RotationValues"
    /\ rv.taps_count < MaxTaps
    /\ \E rb \in Rotations :
          RotationReturn(rotation_values_handle_event(Cur, rv, Ev("Tap", None), rb),
                         rotation_values_tap(rv, rb), Ev("Tap", None), "input", hub)

\* an event of the channel reaches the view
DeliverRotation ==
    /\ container = "RotationValues"
    /\ hub # <<>>
    /\ RotationReturn(rotation_values_handle_event(Cur, rv, Head(hub), rv.fb),
                      rv, Head(hub), "hub", Tail(hub))

NextRotation == Tap \/ DeliverRotation

SpecRotation == InitRotation /\ [][NextRotation]_vars

\* C36: RotationValues sends Back on the tap that brings taps_count to
\* 2 * CORNERS_COUNT and on no earlier tap; each of the first seven taps sends
\* nothing and queues exactly one Full render request for the view; taps 1 to
\* 3 do not set the rotation of the framebuffer.
C36_FinishesOnEighthTap ==
    (container = "RotationValues" /\ last.evt = Ev("Tap", None)) =>
        /\ last.handled
        /\ rv.taps_count = 2 * CORNERS_COUNT =>
              (hub = Append(last.pre.hub, Ev("Back", None)) /\ rq = <<>>)
        /\ rv.taps_count < 2 * CORNERS_COUNT =>
              (hub = <<>> /\ rq = <<RenderData(id, rect, "Full")>>)
        /\ rv.taps_count < CORNERS_COUNT =>
              (rv.set = <<>> /\ rv.fb = rv.read_rotation /\ rect = last.pre.rect)

\* the eighth tap has sent Back
C36_EighthTap ==
    /\ container = "RotationValues" /\ last.evt = Ev("Tap", None)
    /\ rv.taps_count = 2 * CORNERS_COUNT
    /\ hub = <<Ev("Back", None)>>

\* the probes among the first n set_rotation calls whose read-back rotation
\* equalled read_rotation
Matched(v, n) == {k \in 1..n : k <= Len(v.read) /\ v.read[k] = v.read_rotation}

\* the rotation written by the last of these probes, the rotation of the
\* display when no probe matched
LastMatched(v, n) ==
    IF Matched(v, n) = {} THEN v.display
    ELSE v.set[CHOOSE k \in Matched(v, n) : \A j \in Matched(v, n) : j <= k]

\* C37: taps 4, 5, 6 and 7 set the rotation of the framebuffer to 0, 1, 2 and
\* 3; written_rotation takes the probed value exactly when the rotation read
\* back after the set equals read_rotation; the eighth tap sets the
\* written_rotation of that moment, the last probed value that matched or the
\* rotation of the display; the phase render shows stays within
\* 1..PHASES_COUNT for taps_count in 0..7.
C37_ProbesInOrder ==
    container = "RotationValues" =>
        /\ rv.taps_count < CORNERS_COUNT => rv.set = <<>>
        /\ rv.taps_count >= CORNERS_COUNT => Len(rv.set) = rv.taps_count - CORNERS_COUNT + 1
        /\ \A k \in 1..Len(rv.set) : k <= CORNERS_COUNT => rv.set[k] = k - 1
        /\ rv.taps_count < 2 * CORNERS_COUNT =>
              /\ rv.written_rotation = LastMatched(rv, Len(rv.set))
              /\ phase(rv.taps_count) \in 1..PHASES_COUNT
        /\ rv.taps_count = 2 * CORNERS_COUNT =>
              rv.set[CORNERS_COUNT + 1] = LastMatched(rv, CORNERS_COUNT)

\* the eighth tap has set a probed rotation that is not the one of the display
C37_RestoredProbe ==
    /\ container = "RotationValues"
    /\ rv.taps_count = 2 * CORNERS_COUNT
    /\ rv.set[CORNERS_COUNT + 1] # rv.display
    /\ Matched(rv, CORNERS_COUNT) # {}

(* HttpClient: the session with the archive. *)
AO3_FAILED_LOGIN == "The password or user name you entered doesn't match our records."

AO3_SUCCESS_LOGIN == "Successfully logged in."

AO3_ALREADY_LOGIN == "You are already signed in."

Markers == {AO3_FAILED_LOGIN, AO3_SUCCESS_LOGIN, AO3_ALREADY_LOGIN}

\* what send() returns: an error, a response whose body cannot be read, or a
\* response with the markers its body contains
Responses ==
    {[kind |-> "err", body |-> {}], [kind |-> "unreadable", body |-> {}]}
        \cup {[kind |-> "ok", body |-> b] : b \in SUBSET Markers}

\* str::contains on the body of a response
contains(t, marker) == marker \in t

test_login(res, cookie_set) ==
    IF res.kind = "ok"
    THEN IF contains(res.body, AO3_FAILED_LOGIN) THEN FALSE
         ELSE IF contains(res.body, AO3_SUCCESS_LOGIN) \/ contains(res.body, AO3_ALREADY_LOGIN)
              THEN TRUE
              ELSE FALSE
    ELSE IF res.kind = "unreadable" THEN FALSE
    ELSE cookie_set

\* HttpClient::new with the settings and the answer of the front page
http_client_new(remember_me, login_cookie, res) ==
    LET cookie_set == remember_me /\ login_cookie
    IN [NoClient EXCEPT !.built = TRUE, !.remember_me = remember_me,
                        !.login_cookie = login_cookie, !.cookie_set = cookie_set,
                        !.logged_in = test_login(res, cookie_set),
                        !.call = "new", !.res = res, !.called = TRUE,
                        !.value = test_login(res, cookie_set),
                        !.returned = test_login(res, cookie_set)]

\* HttpClient::test_login with the answer of the front page
http_client_test_login(c, res) ==
    IF ~c.cookie_set
    THEN [c EXCEPT !.call = "test_login", !.res = res, !.called = FALSE, !.value = FALSE,
                   !.returned = FALSE]
    ELSE [c EXCEPT !.call = "test_login", !.res = res, !.called = TRUE,
                   !.value = test_login(res, c.cookie_set),
                   !.returned = test_login(res, c.cookie_set)]

\* HttpClient::login with the answer to the posted form
http_client_login(c, res) ==
    [c EXCEPT !.logged_in = test_login(res, c.cookie_set),
              !.login_ok = test_login(res, c.cookie_set),
              !.call = "login", !.res = res, !.called = TRUE,
              !.value = test_login(res, c.cookie_set),
              !.returned = test_login(res, c.cookie_set)]

InitLogin ==
    /\ container = "HttpClient"
    /\ client = NoClient
    /\ rect = DefaultRect /\ id = 0 /\ children = <<>> /\ next_id = 0 /\ rq = <<>>
    /\ shelf_index = 0 /\ pages_count = 0 /\ current_page = 0
    /\ focus = None /\ query = None
    /\ hub = <<>> /\ kb_rect = DefaultRect /\ aborted = FALSE
    /\ last = NoLast
    /\ first_id = next_id
    /\ lk_result = NoLookup /\ rv = NoRotationValues

ClientFrame ==
    UNCHANGED <<container, id, shelf_index, children, rect, focus, query, pages_count,
                current_page, rq, hub, kb_rect, next_id, last, first_id, lk_result, rv>>

New ==
    /\ container = "HttpClient" /\ ~aborted
    /\ \E remember_me \in BOOLEAN, login_cookie \in BOOLEAN, res \in Responses :
          client' = http_client_new(remember_me, login_cookie, res)
    /\ aborted' = FALSE
    /\ ClientFrame

TestLogin ==
    /\ container = "HttpClient" /\ ~aborted /\ client.built
    /\ \E res \in Responses : client' = http_client_test_login(client, res)
    /\ aborted' = FALSE
    /\ ClientFrame

\* login: scrape_login_csrf unwraps the form of the login page
Login ==
    /\ container = "HttpClient" /\ ~aborted /\ client.built
    /\ \E form \in BOOLEAN, res \in Responses :
          IF form
          THEN client' = http_client_login(client, res) /\ aborted' = FALSE
          ELSE client' = [NoClient EXCEPT !.call = "login"] /\ aborted' = TRUE
    /\ ClientFrame

NextLogin == New \/ TestLogin \/ Login

SpecLogin == InitLogin /\ [][NextLogin]_vars

\* the front page, or the answer to the posted form, reports a signed-in session
SignedIn(res) ==
    /\ res.kind = "ok"
    /\ (AO3_SUCCESS_LOGIN \in res.body \/ AO3_ALREADY_LOGIN \in res.body)
    /\ AO3_FAILED_LOGIN \notin res.body

\* C38: test_login(res, cookie_set) returns true only if a response was
\* received whose body contains the success or the already-signed-in marker
\* and not the failed-login marker; for a failed request, an unreadable body
\* or a body without these markers it returns false, whatever cookie_set is.
C38_CookieAloneNeverLoggedIn ==
    (container = "HttpClient" /\ client.called) =>
        /\ client.value => SignedIn(client.res)
        /\ client.res.kind \in {"err", "unreadable"} => ~client.value
        /\ client.res.body \cap {AO3_SUCCESS_LOGIN, AO3_ALREADY_LOGIN} = {} => ~client.value

\* C39: once login has succeeded, HttpClient::test_login() returns false only
\* if the answer of the front page does not report a signed-in session.
C39_SessionFlagsConsistent ==
    (container = "HttpClient" /\ client.call = "test_login" /\ client.login_ok
        /\ client.logged_in) =>
        (~client.returned => ~SignedIn(client.res))

====
